---- MODULE Spec2Model ----
(***************************************************************************)
(* Dimension-label query orchestration of TileDB: the range query that     *)
(* translates a label range into an index range with two one-cell probes   *)
(* of the labelled array, the status composition of the two-child data     *)
(* queries, and the write-once rule of ordered labels.                     *)
(***************************************************************************)
EXTENDS Integers, Sequences, FiniteSets, TLC

(***************************************************************************)
(* Bounds of the model.                                                    *)
(***************************************************************************)
\* Largest number of cells written to a dimension label.
MaxCells == 3
\* Upper end of the declared label domain [0, LabelDomainHi].
LabelDomainHi == 4
\* Largest number of query objects built on one opened dimension label.
MaxWriteQueries == 2
\* Latest time (in timestamp units, counted from the first child write of
\* a call) at which the second child of the call writes its fragment.
MaxTimestamp == 2
MaxSteps == 2
\* Largest number of RangeQuery::finalize calls on one range query.
MaxFinalizes == 2

(***************************************************************************)
(* Enumerations.                                                           *)
(***************************************************************************)
QueryStatus == {"UNINITIALIZED", "INPROGRESS", "INCOMPLETE", "COMPLETED", "FAILED"}

\* The query types a dimension label is opened with.
QueryType == {"READ", "WRITE"}

LabelOrder == {"INCREASING_LABELS", "DECREASING_LABELS", "UNORDERED_LABELS"}

\* The datatypes the model draws from (two of the unsigned integer types the
\* range query dispatches on): the index type is either, the label type the
\* smaller.
Datatype == {"UINT8", "UINT16"}
LabelDatatype == {"UINT8"}

\* Byte size of a datatype.
datatype_size(type) == IF type = "UINT8" THEN 1 ELSE 2

\* Number of values of an unsigned datatype: arithmetic on it wraps modulo this.
TypeModulus(type) == IF type = "UINT8" THEN 256 ELSE 65536

\* Lower ends of the index domain the model draws from.
IndexDomainLows == {0, 1}

(***************************************************************************)
(* State.                                                                  *)
(***************************************************************************)
VARIABLES
  \* ---- the dimension label a range query reads (written once, before) ----
  order_,                 \* DimensionLabelRangeQuery::order_
  index_type,             \* datatype of the index attribute / dimension
  label_type,             \* datatype of the label dimension / attribute
  index_domain,           \* <<lo, hi>>: domain of the index dimension
  label_data,             \* label_data[p]: label stored at index lo + p - 1
  labelled_array,         \* cells (label, index) of the labelled array in read order
  \* ---- DimensionLabelRangeQuery ----
  rq_state,               \* "none" | "constructed" | "submitted"
  rq_error,               \* the last call on the range query threw
  rq_label_ranges,        \* label ranges handed to the last constructor call
  input_label_range_,
  computed_label_range_,
  computed_index_range_,
  lower_bound_query_,
  upper_bound_query_,
  buffer_sizes,           \* the four in-out size cells of the probes' buffers
  status_,
  \* ---- status composition of a two-child data query ----
  labelled_status,        \* labelled_array_query->status()
  indexed_status,         \* indexed_array_query->status()
  data_queries,           \* which child queries exist: "none" | "indexed" | "both"
  unordered_result,       \* what UnorderedLabelsWriteQuery::status() gave
  ordered_result,         \* what OrderedLabelsQuery::status_data_query() gave
  \* ---- ordered writes of one dimension label ----
  label_query_type,       \* DimensionLabel::query_type(): how the label is opened
  indexed_fragments,      \* fragment names of the indexed array, oldest first
  labelled_fragments,     \* fragment names of the labelled array, oldest first
  write_queries,          \* the ordered-write query objects constructed so far
  last_write_call,        \* record of the last construction / processing call
  \* ---- round trip of one ordered dimension label ----
  rt_index_domain,        \* <<lo, hi>>: domain of the index dimension
  rt_indexed_array,       \* cells of the indexed (dense) array, by index
  rt_labelled_array,      \* cells (label, index) of the labelled (sparse) array
  rt_label_buffer,        \* the label buffer the read data query fills
  rt_read_query,          \* "null" or the status of the read data query
  rt_read_range,          \* the range of its subarray on dimension 0
  rt_call,                \* record of the last call of the round trip
  \* ---- DimensionLabelQueries ----
  array_query_type,       \* array_->get_query_type()
  array_dense,            \* array->array_schema_latest().dense()
  subarray,               \* the parent subarray, by dimension
  label_data_buffers,     \* the caller's label buffers, by label name
  range_queries_,
  data_queries_,
  aggregate_state,        \* "none" | "constructed" | "failed"
  last_aggregate_call,    \* record of the last call on the aggregate
  \* ---- Range endpoint operations (tiledb/type/range) ----
  ro_type,                \* the type T of the endpoints
  ro_range1,              \* the range the operations act on
  ro_range2,              \* the range it is compared with
  ro_steps,               \* number of in-place steps applied to ro_range1
  ro_call,                \* record of the last operation
  \* ---- RangeQuery of an OrderedLabelsQuery ----
  olq_domain,             \* domain of the index dimension
  olq_range_query,        \* OrderedLabelsQuery::range_query_
  olq_finalizes,          \* number of RangeQuery::finalize calls so far
  olq_call                \* record of the last call

range_vars == <<order_, index_type, label_type, index_domain, label_data,
                labelled_array, rq_state, rq_error, rq_label_ranges,
                input_label_range_, computed_label_range_,
                computed_index_range_, lower_bound_query_, upper_bound_query_,
                buffer_sizes, status_>>

status_vars == <<labelled_status, indexed_status, data_queries,
                 unordered_result, ordered_result>>

write_vars == <<label_query_type, indexed_fragments, labelled_fragments, write_queries,
                last_write_call>>

roundtrip_vars == <<rt_index_domain, rt_indexed_array, rt_labelled_array,
                    rt_label_buffer, rt_read_query, rt_read_range, rt_call>>

aggregate_vars == <<array_query_type, array_dense, subarray, label_data_buffers,
                    range_queries_, data_queries_, aggregate_state,
                    last_aggregate_call>>

rangeops_vars == <<ro_type, ro_range1, ro_range2, ro_steps, ro_call>>

olq_vars == <<olq_domain, olq_range_query, olq_finalizes, olq_call>>

vars == <<range_vars, status_vars, write_vars, roundtrip_vars, aggregate_vars,
          rangeops_vars, olq_vars>>

(***************************************************************************)
(* Range: a closed interval <<lo, hi>>; the empty tuple is the absent      *)
(* range (Range::empty()).                                                 *)
(***************************************************************************)
RangeEmpty(range) == range = <<>>

\* upper_bound_greater_than<T>(range1, range2): compares the upper endpoints.
upper_bound_greater_than(range1, range2) == range1[2] > range2[2]

\* The comparison of the lower endpoints read at the offset of the upper one.
lower_bound_equal_upper(range1, range2) == range1[2] = range2[2]

\* lower_bound_less_than / equal / greater_than<T>(range1, range2): compare
\* the lower endpoints.
lower_bound_less_than(range1, range2) == range1[1] < range2[1]
lower_bound_equal(range1, range2) == range1[1] = range2[1]
lower_bound_greater_than(range1, range2) == range1[1] > range2[1]

\* upper_bound_less_than / equal<T>(range1, range2): compare the upper
\* endpoints.
upper_bound_less_than(range1, range2) == range1[2] < range2[2]
upper_bound_equal(range1, range2) == range1[2] = range2[2]

\* A decrease of the lower bound applied to the upper endpoint.
decrease_lower_bound_upper(range, type) ==
  [range EXCEPT ![2] = (range[2] - 1) % TypeModulus(type)]

\* decrease_lower_bound<T>(range): lo := lo - 1 in the type T (unsigned: wraps).
decrease_lower_bound(range, type) ==
  [range EXCEPT ![1] = (range[1] - 1) % TypeModulus(type)]

\* increase_lower_bound<T>(range): lo := lo + 1 in the type T (unsigned: wraps).
increase_lower_bound(range, type) ==
  [range EXCEPT ![1] = (range[1] + 1) % TypeModulus(type)]

\* decrease_upper_bound<T>(range): hi := hi - 1 in the type T (unsigned: wraps).
decrease_upper_bound(range, type) ==
  [range EXCEPT ![2] = (range[2] - 1) % TypeModulus(type)]

\* increase_upper_bound<T>(range): hi := hi + 1 in the type T (unsigned: wraps).
increase_upper_bound(range, type) ==
  [range EXCEPT ![2] = (range[2] + 1) % TypeModulus(type)]

(***************************************************************************)
(* Query: the child query of a backing array, as far as the label queries  *)
(* use it.                                                                 *)
(***************************************************************************)
QueryNew == [status |-> "UNINITIALIZED", has_results |-> FALSE, finalized |-> FALSE]

QueryInit(q) == [q EXCEPT !.status = "INPROGRESS"]

QueryCancel(q) == [q EXCEPT !.status = "FAILED"]

QueryFinalize(q) == [q EXCEPT !.finalized = TRUE]

\* process() failed: the query is marked failed and the error is returned.
QueryProcessFailed(q) == [q EXCEPT !.status = "FAILED"]

\* process() of a read that copied ncells cells, with more cells left or not.
QueryProcessRead(q, ncells, more) ==
  [q EXCEPT !.status = IF more THEN "INCOMPLETE" ELSE "COMPLETED",
            !.has_results = ncells > 0]


(***************************************************************************)
(* The dimension label a range query reads.                                *)
(***************************************************************************)
Min(a, b) == IF a <= b THEN a ELSE b

\* Index stored at position p of the label data (consecutive indices).
IndexAt(p) == index_domain[1] + p - 1

\* The (label, index) cells an ordered write puts in the labelled array.
LabelCells(data, lo) ==
  { [label |-> data[p], index |-> lo + p - 1] : p \in 1..Len(data) }

\* Sequences of the cells of S, each cell once.
Orderings(S) ==
  { s \in [1..Cardinality(S) -> S] : \A c \in S : \E i \in DOMAIN s : s[i] = c }

\* The labelled array is sparse with the label as its dimension: a row-major
\* read returns its cells by ascending label (cells of equal label in the
\* order the array stores them).
SortedByLabel(s) == \A i \in 1..(Len(s) - 1) : s[i].label <= s[i + 1].label

\* Label data admitted for a label order: INCREASING is monotonically
\* non-decreasing in the index, DECREASING monotonically non-increasing.
OrderedData(order, data) ==
  \A p \in 1..(Len(data) - 1) :
    /\ order = "INCREASING_LABELS" => data[p] <= data[p + 1]
    /\ order = "DECREASING_LABELS" => data[p] >= data[p + 1]

(***************************************************************************)
(* The read of a probe: a row-major read of the labelled array over the    *)
(* label range [lo, hi] into a label buffer and an index buffer whose      *)
(* sizes (in bytes) are given; it copies as many leading cells as fit.     *)
(***************************************************************************)
ReadCells(lo, hi, label_buffer_size, index_buffer_size) ==
  LET matched == SelectSeq(labelled_array,
                           LAMBDA c : lo <= c.label /\ c.label <= hi)
      fit == Min(label_buffer_size \div datatype_size(label_type),
                 index_buffer_size \div datatype_size(index_type))
      n == Min(fit, Len(matched))
  IN [ncells |-> n, cells |-> SubSeq(matched, 1, n), more |-> n < Len(matched)]

(***************************************************************************)
(* DimensionLabelRangeQuery.                                               *)
(***************************************************************************)
\* A comparison that also holds when the two upper endpoints are equal.
upper_bound_greater_or_equal(computed, input) == computed[2] >= input[2]

\* label_upper_bound_greater_than(type): the comparison of the computed label
\* range with the input label range.
has_extra_range_element_(computed, input) ==
  upper_bound_greater_than(computed, input)

\* index_range_fixer(order, type): the correction of the computed index range.
fix_index_range_(range) ==
  IF order_ = "INCREASING_LABELS"
    THEN decrease_upper_bound(range, index_type)
    ELSE increase_upper_bound(range, index_type)

\* Endpoint of computed_index_range_ the lower-bound probe's index buffer is
\* bound to (1: start_fixed(), 2: end_fixed()), and likewise the upper probe's.
LowerIndexSlot == IF order_ = "INCREASING_LABELS" THEN 1 ELSE 2
UpperIndexSlot == IF order_ = "INCREASING_LABELS" THEN 2 ELSE 1

\* Size cell each buffer is bound with in the constructor.
LowerLabelSizeCell == "lower_bound_label_buffer_size_"
LowerIndexSizeCell ==
  IF order_ = "INCREASING_LABELS"
    THEN "lower_bound_label_buffer_size_"
    ELSE "lower_bound_index_buffer_size_"
UpperLabelSizeCell == "upper_bound_label_buffer_size_"
UpperIndexSizeCell == "upper_bound_index_buffer_size_"

\* Label range sets handed to the constructor: no range, one range, and the
\* same range twice.
LabelRanges ==
  { <<ls, le>> : ls \in 0..LabelDomainHi, le \in 0..LabelDomainHi }
InputRanges == { r \in LabelRanges : r[1] <= r[2] }
LabelRangeSets ==
  {<<>>} \cup { <<r>> : r \in InputRanges } \cup { <<r, r>> : r \in {<<0, 0>>} }

\* The value of a size cell after a read of ncells cells wrote the result
\* sizes of the buffers bound with it (last: the buffer written last).
SizesAfterRead(sizes, label_cell, index_cell, ncells, last) ==
  LET s1 == [sizes EXCEPT ![label_cell] = ncells * datatype_size(label_type),
                          ![index_cell] = ncells * datatype_size(index_type)]
  IN IF label_cell = index_cell /\ last = "label"
       THEN [s1 EXCEPT ![label_cell] = ncells * datatype_size(label_type)]
       ELSE s1

\* The constructor's check of the number of label ranges, reading only the
\* empty set as an error.
label_ranges_rejected_empty(label_ranges) ==
  Len(label_ranges) = 0

\* The constructor's check of the number of label ranges: it throws for no
\* range and for more than one range.
label_ranges_rejected(label_ranges) ==
  Len(label_ranges) = 0 \/ Len(label_ranges) > 1

DimensionLabelRangeQuery ==
  /\ rq_state = "none"
  /\ \E label_ranges \in LabelRangeSets :
       IF label_ranges_rejected(label_ranges)
            \/ order_ \notin {"INCREASING_LABELS", "DECREASING_LABELS"}
         THEN \* the constructor throws: no query object
           /\ rq_error' = TRUE
           /\ rq_label_ranges' = label_ranges
           /\ UNCHANGED <<rq_state, input_label_range_, computed_label_range_,
                          computed_index_range_, lower_bound_query_,
                          upper_bound_query_, buffer_sizes, status_>>
         ELSE
           /\ rq_state' = "constructed"
           /\ rq_error' = FALSE
           /\ rq_label_ranges' = label_ranges
           /\ input_label_range_' = label_ranges[1]
           /\ computed_label_range_' = label_ranges[1]
           /\ computed_index_range_' = index_domain
           /\ lower_bound_query_' = QueryInit(QueryNew)
           /\ upper_bound_query_' = QueryInit(QueryNew)
           /\ buffer_sizes' =
                [lower_bound_index_buffer_size_ |-> datatype_size(index_type),
                 lower_bound_label_buffer_size_ |-> datatype_size(label_type),
                 upper_bound_index_buffer_size_ |-> datatype_size(index_type),
                 upper_bound_label_buffer_size_ |-> datatype_size(label_type)]
           /\ status_' = "UNINITIALIZED"
  /\ UNCHANGED <<order_, index_type, label_type, index_domain, label_data,
                 labelled_array>>
  /\ UNCHANGED <<status_vars, write_vars, roundtrip_vars, aggregate_vars,
                 rangeops_vars, olq_vars>>

\* cancel(): marks a query that has not yet been started as failed.
cancel ==
  /\ rq_state = "constructed"
  /\ lower_bound_query_' = QueryCancel(lower_bound_query_)
  /\ upper_bound_query_' = QueryCancel(upper_bound_query_)
  /\ rq_error' = FALSE
  /\ UNCHANGED <<order_, index_type, label_type, index_domain, label_data,
                 labelled_array, rq_state, rq_label_ranges,
                 input_label_range_, computed_label_range_,
                 computed_index_range_, buffer_sizes, status_>>
  /\ UNCHANGED <<status_vars, write_vars, roundtrip_vars, aggregate_vars,
                 rangeops_vars, olq_vars>>

\* finalize(): called after the query was submitted.
finalize ==
  /\ rq_state = "submitted"
  /\ lower_bound_query_' = QueryFinalize(lower_bound_query_)
  /\ upper_bound_query_' = QueryFinalize(upper_bound_query_)
  /\ rq_error' = FALSE
  /\ UNCHANGED <<order_, index_type, label_type, index_domain, label_data,
                 labelled_array, rq_state, rq_label_ranges,
                 input_label_range_, computed_label_range_,
                 computed_index_range_, buffer_sizes, status_>>
  /\ UNCHANGED <<status_vars, write_vars, roundtrip_vars, aggregate_vars,
                 rangeops_vars, olq_vars>>

\* submit(): the callers of this model submit a range query once.
submit ==
  /\ rq_state = "constructed"
  /\ rq_state' = "submitted"
  /\ \E lower_ok \in BOOLEAN, upper_ok \in BOOLEAN, last \in {"label", "index"} :
       LET lr == ReadCells(input_label_range_[1], LabelDomainHi,
                           buffer_sizes[LowerLabelSizeCell],
                           buffer_sizes[LowerIndexSizeCell])
           lq == QueryProcessRead(lower_bound_query_, lr.ncells, lr.more)
           sizes1 == SizesAfterRead(buffer_sizes, LowerLabelSizeCell,
                                    LowerIndexSizeCell, lr.ncells, last)
           label1 == IF lr.ncells > 0
                       THEN [computed_label_range_ EXCEPT ![1] = lr.cells[1].label]
                       ELSE computed_label_range_
           index1 == IF lr.ncells > 0
                       THEN [computed_index_range_ EXCEPT
                               ![LowerIndexSlot] = lr.cells[1].index]
                       ELSE computed_index_range_
           ur == ReadCells(input_label_range_[2], LabelDomainHi,
                           sizes1[UpperLabelSizeCell],
                           sizes1[UpperIndexSizeCell])
           uq == QueryProcessRead(upper_bound_query_, ur.ncells, ur.more)
           sizes2 == SizesAfterRead(sizes1, UpperLabelSizeCell,
                                    UpperIndexSizeCell, ur.ncells, last)
           label2 == IF ur.ncells > 0
                       THEN [label1 EXCEPT ![2] = ur.cells[1].label]
                       ELSE label1
           index2 == IF ur.ncells > 0
                       THEN [index1 EXCEPT ![UpperIndexSlot] = ur.cells[1].index]
                       ELSE index1
       IN
       IF ~lower_ok THEN
         /\ lower_bound_query_' = QueryProcessFailed(lower_bound_query_)
         /\ upper_bound_query_' = QueryCancel(upper_bound_query_)
         /\ rq_error' = TRUE
         /\ UNCHANGED <<computed_label_range_, computed_index_range_,
                        buffer_sizes, status_>>
       ELSE IF ~upper_ok THEN
         /\ lower_bound_query_' = QueryCancel(lq)
         /\ upper_bound_query_' = QueryProcessFailed(upper_bound_query_)
         /\ computed_label_range_' = label1
         /\ computed_index_range_' = index1
         /\ buffer_sizes' = sizes1
         /\ rq_error' = TRUE
         /\ UNCHANGED status_
       ELSE IF ~lq.has_results \/ ~uq.has_results THEN
         /\ status_' = "FAILED"
         /\ lower_bound_query_' = QueryFinalize(lq)
         /\ upper_bound_query_' = QueryFinalize(uq)
         /\ computed_label_range_' = label2
         /\ computed_index_range_' = index2
         /\ buffer_sizes' = sizes2
         /\ rq_error' = TRUE
       ELSE
         /\ computed_index_range_' =
              IF has_extra_range_element_(label2, input_label_range_)
                THEN fix_index_range_(index2)
                ELSE index2
         /\ status_' = "COMPLETED"
         /\ lower_bound_query_' = lq
         /\ upper_bound_query_' = uq
         /\ computed_label_range_' = label2
         /\ buffer_sizes' = sizes2
         /\ rq_error' = FALSE
  /\ UNCHANGED <<order_, index_type, label_type, index_domain, label_data,
                 labelled_array, rq_label_ranges, input_label_range_>>
  /\ UNCHANGED <<status_vars, write_vars, roundtrip_vars, aggregate_vars,
                 rangeops_vars, olq_vars>>

\* A dimension label written once over its whole index domain, and no range
\* query yet.
InitRange ==
  /\ order_ \in LabelOrder
  /\ index_type \in Datatype
  /\ label_type \in LabelDatatype
  /\ \E lo \in IndexDomainLows, n \in 1..MaxCells :
       \* the range query never reads an unordered label: one cell stands
       \* for its data
       /\ order_ = "UNORDERED_LABELS" => n = 1
       /\ index_domain = <<lo, lo + n - 1>>
       /\ label_data \in { d \in [1..n -> 0..LabelDomainHi] : OrderedData(order_, d) }
       /\ labelled_array \in { s \in Orderings(LabelCells(label_data, lo)) :
                                 SortedByLabel(s) }
  /\ rq_state = "none"
  /\ rq_error = FALSE
  /\ rq_label_ranges = <<>>
  /\ input_label_range_ = <<>>
  /\ computed_label_range_ = <<>>
  /\ computed_index_range_ = <<>>
  /\ lower_bound_query_ = QueryNew
  /\ upper_bound_query_ = QueryNew
  /\ buffer_sizes = [lower_bound_index_buffer_size_ |-> 0,
                     lower_bound_label_buffer_size_ |-> 0,
                     upper_bound_index_buffer_size_ |-> 0,
                     upper_bound_label_buffer_size_ |-> 0]
  /\ status_ = "UNINITIALIZED"

NextRange ==
  \/ DimensionLabelRangeQuery
  \/ submit
  \/ cancel
  \/ finalize


(***************************************************************************)
(* Status composition of the data queries.  The result "throw" stands for  *)
(* the exception the function raises instead of returning a status.        *)
(***************************************************************************)
\* UnorderedLabelsWriteQuery::status(), from the existence of the two child
\* queries and their statuses.
UnorderedLabelsWriteQuery_status(has_labelled, has_indexed, labelled, indexed) ==
  IF ~has_labelled /\ ~has_indexed THEN "UNINITIALIZED"
  ELSE IF ~has_labelled /\ has_indexed THEN "throw"
  ELSE IF ~has_indexed /\ has_labelled THEN "FAILED"
  ELSE IF labelled = indexed THEN labelled
  ELSE IF labelled = "UNINITIALIZED" \/ indexed = "UNINITIALIZED" THEN "throw"
  ELSE IF labelled = "FAILED" \/ indexed = "FAILED" THEN "FAILED"
  ELSE IF labelled = "INCOMPLETE" \/ indexed = "INCOMPLETE" THEN "INCOMPLETE"
  ELSE "INPROGRESS"

\* OrderedLabelsQuery::status_data_query().
status_data_query(has_labelled, has_indexed, labelled, indexed) ==
  IF ~has_labelled /\ ~has_indexed THEN "COMPLETED"
  ELSE IF ~has_labelled /\ has_indexed THEN indexed
  ELSE IF ~has_indexed /\ has_labelled THEN labelled
  ELSE IF labelled = "FAILED" \/ indexed = labelled THEN labelled
  ELSE indexed

\* UnorderedLabelsWriteQuery creates both child queries in its constructor.
CallUnorderedStatus ==
  /\ unordered_result' =
       UnorderedLabelsWriteQuery_status(TRUE, TRUE, labelled_status, indexed_status)
  /\ UNCHANGED <<labelled_status, indexed_status, data_queries, ordered_result>>
  /\ UNCHANGED <<range_vars, write_vars, roundtrip_vars, aggregate_vars,
                 rangeops_vars, olq_vars>>

\* OrderedLabelsQuery has no child query before initialize_data_query, the
\* indexed one after it under READ and both after it under WRITE.
CallStatusDataQuery ==
  /\ ordered_result' =
       status_data_query(data_queries = "both", data_queries # "none",
                         labelled_status, indexed_status)
  /\ UNCHANGED <<labelled_status, indexed_status, data_queries, unordered_result>>
  /\ UNCHANGED <<range_vars, write_vars, roundtrip_vars, aggregate_vars,
                 rangeops_vars, olq_vars>>

InitStatus ==
  /\ labelled_status \in QueryStatus
  /\ indexed_status \in QueryStatus
  /\ data_queries \in {"none", "indexed", "both"}
  /\ unordered_result = "none"
  /\ ordered_result = "none"

NextStatus ==
  \/ CallUnorderedStatus
  \/ CallStatusDataQuery


(***************************************************************************)
(* Ordered writes of one dimension label: the two backing arrays and the   *)
(* query objects built on them.  A query object is a record                *)
(*   class: "OrderedWriteDataQuery" or "OrderedLabelsQuery",               *)
(*   query_type_: the query type the label is opened with,                 *)
(*   fragment_name: the fragment-name hint, "none" when absent,            *)
(*   range_query_: "null" or the status of the range query,                *)
(*   index_ranges: the ranges set on dimension 0 of the indexed-array      *)
(*   query's subarray, <<>> for the default (whole domain) subarray,       *)
(*   indexed_array_query, labelled_array_query: "null" or the status of    *)
(*   the child query.                                                      *)
(* Each child query of this model is submitted once.                       *)
(***************************************************************************)
\* Array::is_empty(): the array holds no fragment.
is_empty(fragments) == Len(fragments) = 0

\* The timestamp a fragment-name hint carries
\* (generate_fragment_name(timestamp, format_version)).
HintTimestamp(fragment_name) == 1

\* The fragment a child query (child: "indexed" or "labelled") of write query
\* i writes at time t.  A query built with a fragment name writes under that
\* name; a query built without one generates its own name, unique to the
\* query, from the time of its write.
Fragment(i, fragment_name, child, t) ==
  IF fragment_name = "none"
    THEN [query |-> i, fragment_name |-> "generated_" \o child, timestamp |-> t]
    ELSE [query |-> i, fragment_name |-> fragment_name,
          timestamp |-> HintTimestamp(fragment_name)]

\* A check that looks at the labelled array only.
labelled_array_written == ~is_empty(labelled_fragments)

\* The check of OrderedWriteDataQuery that the label was written before.
OrderedWriteDataQuery_written ==
  ~is_empty(labelled_fragments) \/ ~is_empty(indexed_fragments)

\* The same check in OrderedLabelsQuery::initialize_data_query.
initialize_data_query_written ==
  ~is_empty(labelled_fragments) \/ ~is_empty(indexed_fragments)

WriteCall(op, i, query_type, ok) ==
  [op |-> op, query |-> i, query_type |-> query_type, ok |-> ok]

\* OrderedWriteDataQuery::OrderedWriteDataQuery: the label is open for WRITE;
\* is_default is parent_subarray.is_default(dim_idx).
OrderedWriteDataQuery ==
  /\ label_query_type = "WRITE"
  /\ Len(write_queries) < MaxWriteQueries
  /\ \E is_default \in BOOLEAN, fragment_name \in {"none", "hint"} :
       IF OrderedWriteDataQuery_written \/ ~is_default
         THEN \* the constructor throws: no query object
           /\ last_write_call' =
                WriteCall("OrderedWriteDataQuery", Len(write_queries) + 1, "WRITE", FALSE)
                  @@ [is_default |-> is_default]
           /\ UNCHANGED write_queries
         ELSE
           /\ write_queries' = Append(write_queries,
                [class |-> "OrderedWriteDataQuery",
                 query_type_ |-> "WRITE",
                 fragment_name |-> fragment_name,
                 range_query_ |-> "null",
                 index_ranges |-> <<>>,
                 indexed_array_query |-> "UNINITIALIZED",
                 labelled_array_query |-> "UNINITIALIZED"])
           /\ last_write_call' =
                WriteCall("OrderedWriteDataQuery", Len(write_queries) + 1, "WRITE", TRUE)
                  @@ [is_default |-> is_default]
  /\ UNCHANGED <<indexed_fragments, labelled_fragments>>
  /\ UNCHANGED <<range_vars, status_vars, label_query_type, roundtrip_vars, aggregate_vars,
                 rangeops_vars, olq_vars>>

\* DimensionLabelDataQuery::process of an ordered-write data query: the
\* indexed-array query, then the labelled-array query; either may fail.
process ==
  \E i \in 1..Len(write_queries) :
    LET q == write_queries[i] IN
    /\ UNCHANGED <<range_vars, status_vars, label_query_type, roundtrip_vars, aggregate_vars,
                 rangeops_vars, olq_vars>>
    /\ q.class = "OrderedWriteDataQuery"
    /\ q.indexed_array_query = "UNINITIALIZED"
    /\ \E indexed_ok \in BOOLEAN, labelled_ok \in BOOLEAN,
          t1 \in 1..MaxTimestamp, t2 \in 1..MaxTimestamp :
         \* time is counted from the first child write of the call
         /\ t1 = 1
         /\ t1 <= t2
         /\ (q.fragment_name # "none" \/ ~indexed_ok) => t1 = 1
         /\ (q.fragment_name # "none" \/ ~indexed_ok \/ ~labelled_ok) => t2 = t1
         /\ IF ~indexed_ok THEN
              /\ write_queries' = [write_queries EXCEPT ![i].indexed_array_query = "FAILED"]
              /\ last_write_call' = WriteCall("process", i, "WRITE", FALSE)
                                      @@ [is_default |-> TRUE]
              /\ UNCHANGED <<indexed_fragments, labelled_fragments>>
            ELSE IF ~labelled_ok THEN
              /\ indexed_fragments' =
                   Append(indexed_fragments, Fragment(i, q.fragment_name, "indexed", t1))
              /\ write_queries' = [write_queries EXCEPT
                                     ![i].indexed_array_query = "COMPLETED",
                                     ![i].labelled_array_query = "FAILED"]
              /\ last_write_call' = WriteCall("process", i, "WRITE", FALSE)
                                      @@ [is_default |-> TRUE]
              /\ UNCHANGED labelled_fragments
            ELSE
              /\ indexed_fragments' =
                   Append(indexed_fragments, Fragment(i, q.fragment_name, "indexed", t1))
              /\ labelled_fragments' =
                   Append(labelled_fragments, Fragment(i, q.fragment_name, "labelled", t2))
              /\ write_queries' = [write_queries EXCEPT
                                     ![i].indexed_array_query = "COMPLETED",
                                     ![i].labelled_array_query = "COMPLETED"]
              /\ last_write_call' = WriteCall("process", i, "WRITE", TRUE)
                                      @@ [is_default |-> TRUE]

\* OrderedLabelsQuery::OrderedLabelsQuery: query_type_ is the query type the
\* label is opened with.
OrderedLabelsQuery ==
  /\ Len(write_queries) < MaxWriteQueries
  /\ \E query_type \in {label_query_type} :
       /\ write_queries' = Append(write_queries,
            [class |-> "OrderedLabelsQuery",
             query_type_ |-> query_type,
             fragment_name |-> "none",
             range_query_ |-> "null",
             index_ranges |-> <<>>,
             indexed_array_query |-> "null",
             labelled_array_query |-> "null"])
       /\ last_write_call' =
            WriteCall("OrderedLabelsQuery", Len(write_queries) + 1, query_type, TRUE)
              @@ [is_default |-> TRUE]
  /\ UNCHANGED <<indexed_fragments, labelled_fragments>>
  /\ UNCHANGED <<range_vars, status_vars, label_query_type, roundtrip_vars, aggregate_vars,
                 rangeops_vars, olq_vars>>

\* OrderedLabelsQuery::initialize_data_query.
initialize_data_query ==
  \E i \in 1..Len(write_queries) :
    LET q == write_queries[i]
        write == q.query_type_ = "WRITE"
        fails == \/ write /\ initialize_data_query_written
                 \/ write /\ q.labelled_array_query # "null"
                 \/ q.indexed_array_query # "null"
    IN
    /\ UNCHANGED <<range_vars, status_vars, label_query_type, roundtrip_vars, aggregate_vars,
                 rangeops_vars, olq_vars>>
    /\ q.class = "OrderedLabelsQuery"
    /\ IF fails
         THEN UNCHANGED write_queries
         ELSE write_queries' = [write_queries EXCEPT
                ![i].labelled_array_query =
                   IF write THEN "UNINITIALIZED" ELSE "null",
                ![i].indexed_array_query = "UNINITIALIZED"]
    /\ last_write_call' =
         WriteCall("initialize_data_query", i, q.query_type_, ~fails)
           @@ [is_default |-> TRUE]
    /\ UNCHANGED <<indexed_fragments, labelled_fragments>>

\* A check that rejects only a query without data query.
set_index_ranges_not_initialized(q) == q.indexed_array_query = "null"

\* The checks of OrderedLabelsQuery::set_index_ranges that return an error.
set_index_ranges_rejected(q) ==
  q.indexed_array_query = "null" \/ q.query_type_ = "WRITE"

\* Index range lists a caller hands to set_index_ranges.
IndexRangeLists == { << <<1, 2>> >> }

\* OrderedLabelsQuery::set_index_ranges.
set_index_ranges ==
  \E i \in 1..Len(write_queries), ranges \in IndexRangeLists :
    LET q == write_queries[i] IN
    /\ UNCHANGED <<range_vars, status_vars, label_query_type, roundtrip_vars, aggregate_vars,
                 rangeops_vars, olq_vars>>
    /\ q.class = "OrderedLabelsQuery"
    /\ IF set_index_ranges_rejected(q)
         THEN UNCHANGED write_queries
         ELSE write_queries' = [write_queries EXCEPT ![i].index_ranges = ranges]
    /\ last_write_call' =
         WriteCall("set_index_ranges", i, q.query_type_, ~set_index_ranges_rejected(q))
           @@ [is_default |-> TRUE]
    /\ UNCHANGED <<indexed_fragments, labelled_fragments>>

\* Stride arguments of add_label_range: none (nullptr) or some stride.
Strides == {"nullptr", "stride"}

\* Checks of add_label_range that let a label opened for WRITE pass.
add_label_range_rejected_no_write(q, stride) ==
  \/ stride # "nullptr"
  \/ q.range_query_ # "null"

\* The checks of OrderedLabelsQuery::add_label_range that return an error.
add_label_range_rejected(q, stride) ==
  \/ stride # "nullptr"
  \/ q.range_query_ # "null"
  \/ q.query_type_ = "WRITE"

\* OrderedLabelsQuery::add_label_range: creates the range query.
add_label_range ==
  \E i \in 1..Len(write_queries), stride \in Strides :
    LET q == write_queries[i] IN
    /\ UNCHANGED <<range_vars, status_vars, label_query_type, roundtrip_vars, aggregate_vars,
                 rangeops_vars, olq_vars>>
    /\ q.class = "OrderedLabelsQuery"
    /\ IF add_label_range_rejected(q, stride)
         THEN UNCHANGED write_queries
         ELSE write_queries' = [write_queries EXCEPT ![i].range_query_ = "UNINITIALIZED"]
    /\ last_write_call' =
         WriteCall("add_label_range", i, q.query_type_, ~add_label_range_rejected(q, stride))
           @@ [is_default |-> TRUE]
    /\ UNCHANGED <<indexed_fragments, labelled_fragments>>

\* Outcomes of RangeQuery::submit followed by RangeQuery::finalize, as
\* resolve_labels calls them: the lower-bound submit fails and the error is
\* returned with the status untouched; or finalize finds a probe without
\* results, sets FAILED and returns an error; or finalize sets COMPLETED.
RangeQueryOutcomes ==
  { [status |-> "UNINITIALIZED", ok |-> FALSE],
    [status |-> "FAILED", ok |-> FALSE],
    [status |-> "COMPLETED", ok |-> TRUE] }

\* OrderedLabelsQuery::resolve_labels (each range query is resolved until its
\* status is set).
resolve_labels ==
  \E i \in 1..Len(write_queries) :
    LET q == write_queries[i] IN
    /\ UNCHANGED <<range_vars, status_vars, label_query_type, roundtrip_vars, aggregate_vars,
                 rangeops_vars, olq_vars>>
    /\ q.class = "OrderedLabelsQuery"
    /\ q.range_query_ \in {"null", "UNINITIALIZED"}
    /\ IF q.range_query_ = "null"
         THEN /\ UNCHANGED write_queries
              /\ last_write_call' =
                   WriteCall("resolve_labels", i, q.query_type_, TRUE)
                     @@ [is_default |-> TRUE]
         ELSE \E outcome \in RangeQueryOutcomes :
              /\ write_queries' = [write_queries EXCEPT ![i].range_query_ = outcome.status]
              /\ last_write_call' =
                   WriteCall("resolve_labels", i, q.query_type_, outcome.ok)
                     @@ [is_default |-> TRUE]
    /\ UNCHANGED <<indexed_fragments, labelled_fragments>>

\* A gate that is closed only by a failed range query.
submit_data_query_blocked_when_failed(q) == q.range_query_ = "FAILED"

\* The check of OrderedLabelsQuery::submit_data_query that returns an error
\* before any data query is submitted.
submit_data_query_blocked(q) ==
  q.range_query_ # "null" /\ q.range_query_ # "COMPLETED"

\* OrderedLabelsQuery::submit_data_query: the labelled-array query, then the
\* indexed-array query; either submit may fail.  The labelled-array query
\* writes at time t1 and the indexed-array query at time t2.
submit_data_query ==
  \E i \in 1..Len(write_queries) :
    LET q == write_queries[i]
        write == q.query_type_ = "WRITE"
    IN
    /\ UNCHANGED <<range_vars, status_vars, label_query_type, roundtrip_vars, aggregate_vars,
                 rangeops_vars, olq_vars>>
    /\ q.class = "OrderedLabelsQuery"
    /\ q.indexed_array_query \in {"null", "UNINITIALIZED"}
    /\ \E labelled_ok \in BOOLEAN, indexed_ok \in BOOLEAN,
          t1 \in 1..MaxTimestamp, t2 \in 1..MaxTimestamp :
         \* time is counted from the first child write of the call
         /\ t1 = 1
         /\ t1 <= t2
         /\ (~write \/ q.labelled_array_query = "null" \/ ~labelled_ok
               \/ submit_data_query_blocked(q)) => (t1 = 1 /\ t2 = 1 /\ labelled_ok)
         /\ (q.indexed_array_query = "null" \/ submit_data_query_blocked(q)) => indexed_ok
         /\ (~write \/ ~indexed_ok) => t2 = t1
         /\ IF submit_data_query_blocked(q) THEN
              /\ UNCHANGED <<write_queries, indexed_fragments, labelled_fragments>>
              /\ last_write_call' = WriteCall("submit_data_query", i, q.query_type_, FALSE)
                                      @@ [is_default |-> TRUE]
            ELSE IF q.labelled_array_query # "null" /\ ~labelled_ok THEN
              /\ write_queries' = [write_queries EXCEPT ![i].labelled_array_query = "FAILED"]
              /\ last_write_call' = WriteCall("submit_data_query", i, q.query_type_, FALSE)
                                      @@ [is_default |-> TRUE]
              /\ UNCHANGED <<indexed_fragments, labelled_fragments>>
            ELSE
              /\ labelled_fragments' =
                   IF q.labelled_array_query # "null"
                     THEN Append(labelled_fragments,
                                 Fragment(i, q.fragment_name, "labelled", t1))
                     ELSE labelled_fragments
              /\ indexed_fragments' =
                   IF write /\ q.indexed_array_query # "null" /\ indexed_ok
                     THEN Append(indexed_fragments,
                                 Fragment(i, q.fragment_name, "indexed", t2))
                     ELSE indexed_fragments
              /\ write_queries' = [write_queries EXCEPT
                   ![i].labelled_array_query =
                      IF q.labelled_array_query # "null" THEN "COMPLETED" ELSE "null",
                   ![i].indexed_array_query =
                      IF q.indexed_array_query = "null" THEN "null"
                      ELSE IF indexed_ok THEN "COMPLETED" ELSE "FAILED"]
              /\ last_write_call' = WriteCall("submit_data_query", i, q.query_type_, indexed_ok)
                                      @@ [is_default |-> TRUE]

\* A newly created dimension label: both backing arrays are empty.
InitWrite ==
  /\ label_query_type \in QueryType
  /\ indexed_fragments = <<>>
  /\ labelled_fragments = <<>>
  /\ write_queries = <<>>
  /\ last_write_call = WriteCall("none", 0, "WRITE", TRUE) @@ [is_default |-> TRUE]

NextWrite ==
  \/ OrderedWriteDataQuery
  \/ process
  \/ OrderedLabelsQuery
  \/ initialize_data_query
  \/ set_index_ranges
  \/ add_label_range
  \/ resolve_labels
  \/ submit_data_query

(***************************************************************************)
(* Round trip of one ordered dimension label: an ordered write over the    *)
(* whole index domain, then a read of label data over an index range.      *)
(* rt_indexed_array[p] is the cell of the dense indexed array at index     *)
(* rt_index_domain[1] + p - 1 (FillValue while nothing is written there),   *)
(* rt_labelled_array the set of cells of the sparse labelled array,        *)
(* rt_label_buffer the caller's label buffer of the read, rt_read_query    *)
(* the read data query ("null" or the status of its indexed-array query).  *)
(***************************************************************************)
\* The value a dense array holds in a cell nothing was written to: a value
\* that is no label.
FillValue == LabelDomainHi + 1

\* Cells of the index domain.
DomainCells(domain) == domain[2] - domain[1] + 1

\* Label buffers of an ordered label: strictly increasing or strictly
\* decreasing label values, one per cell of the index domain.
LabelBuffers(ncells) ==
  { b \in [1..ncells -> 1..LabelDomainHi] :
      \/ \A p \in 1..(ncells - 1) : b[p] < b[p + 1]
      \/ \A p \in 1..(ncells - 1) : b[p] > b[p + 1] }

\* Index buffers the caller may pass: the indices of the domain in any order
\* (the constructor checks neither the order nor the coverage).
IndexBuffers(domain) == Orderings(domain[1]..domain[2])

\* The buffer bound to the label attribute of the indexed-array query of an
\* ordered write.
indexed_write_buffer_index(label_buffer, index_buffer) == index_buffer

indexed_write_buffer(label_buffer, index_buffer) == label_buffer

\* The cells bound to the labelled-array query of an ordered write: label
\* and index buffer, cell by cell.
labelled_write_cells(label_buffer, index_buffer) ==
  { [label |-> label_buffer[p], index |-> index_buffer[p]] :
      p \in 1..Len(label_buffer) }

\* A row-major write of a buffer over the whole domain of a dense array:
\* cell p of the buffer is stored at the p-th index of the domain.
DenseWrite(cells, buffer) == [p \in 1..Len(cells) |-> buffer[p]]

\* The ranges set on dimension 0 of the indexed-array query of a read.
read_subarray(domain, ranges_for_dim) == ranges_for_dim

\* A row-major read of a dense array over one range into a buffer: the cells
\* of the range in index order, as many as fit, at the front of the buffer;
\* the cells of the buffer behind them keep their values.
DenseRead(cells, domain, range, buffer) ==
  LET first == range[1] - domain[1] + 1
      wanted == range[2] - range[1] + 1
      n == Min(wanted, Len(buffer))
  IN [buffer |-> [p \in 1..Len(buffer) |->
                    IF p <= n THEN cells[first + p - 1] ELSE buffer[p]],
      status |-> IF n < wanted THEN "INCOMPLETE" ELSE "COMPLETED"]

RoundTripCall(op, ok, written, label_buffer, index_buffer, before) ==
  [op |-> op, ok |-> ok, written |-> written, label_buffer |-> label_buffer,
   index_buffer |-> index_buffer, before |-> before]

\* OrderedWriteDataQuery on the empty label followed by process(): the
\* indexed array is written first, then the labelled array.  rt_call keeps
\* the buffers of a write that reached an array.
ordered_write ==
  /\ \A p \in DOMAIN rt_indexed_array : rt_indexed_array[p] = FillValue
  /\ rt_labelled_array = {}
  /\ \E label_buffer \in LabelBuffers(DomainCells(rt_index_domain)),
        index_buffer \in IndexBuffers(rt_index_domain),
        indexed_ok, labelled_ok \in BOOLEAN :
       /\ ~indexed_ok => ~labelled_ok
       /\ rt_indexed_array' =
            IF indexed_ok
              THEN DenseWrite(rt_indexed_array,
                              indexed_write_buffer(label_buffer, index_buffer))
              ELSE rt_indexed_array
       /\ rt_labelled_array' =
            IF labelled_ok
              THEN labelled_write_cells(label_buffer, index_buffer)
              ELSE rt_labelled_array
       /\ rt_call' = RoundTripCall("ordered_write", indexed_ok /\ labelled_ok,
                                   indexed_ok /\ labelled_ok,
                                   IF indexed_ok THEN label_buffer ELSE <<>>,
                                   IF indexed_ok THEN index_buffer ELSE <<>>,
                                   rt_label_buffer)
  /\ UNCHANGED <<rt_index_domain, rt_label_buffer, rt_read_query, rt_read_range>>
  /\ UNCHANGED <<range_vars, status_vars, write_vars, aggregate_vars,
                 rangeops_vars, olq_vars>>

\* DimensionLabelReadDataQuery: the read data query over the ranges the
\* parent subarray has on the dimension.
DimensionLabelReadDataQuery ==
  /\ rt_read_query = "null"
  /\ \E lo, hi \in rt_index_domain[1]..rt_index_domain[2] :
       /\ lo <= hi
       /\ rt_read_range' = read_subarray(rt_index_domain, <<lo, hi>>)
       /\ rt_call' = [rt_call EXCEPT !.op = "DimensionLabelReadDataQuery",
                                     !.ok = TRUE]
  /\ rt_read_query' = "UNINITIALIZED"
  /\ UNCHANGED <<rt_index_domain, rt_indexed_array, rt_labelled_array,
                 rt_label_buffer>>
  /\ UNCHANGED <<range_vars, status_vars, write_vars, aggregate_vars,
                 rangeops_vars, olq_vars>>

\* DimensionLabelDataQuery::process of the read data query.
process_read ==
  /\ rt_read_query = "UNINITIALIZED"
  /\ \E ok \in BOOLEAN :
       LET read == DenseRead(rt_indexed_array, rt_index_domain, rt_read_range,
                             rt_label_buffer)
       IN /\ rt_label_buffer' = IF ok THEN read.buffer ELSE rt_label_buffer
          /\ rt_read_query' = IF ok THEN read.status ELSE "FAILED"
          /\ rt_call' = [rt_call EXCEPT !.op = "process_read", !.ok = ok,
                                        !.before = rt_label_buffer]
  /\ UNCHANGED <<rt_index_domain, rt_indexed_array, rt_labelled_array,
                 rt_read_range>>
  /\ UNCHANGED <<range_vars, status_vars, write_vars, aggregate_vars,
                 rangeops_vars, olq_vars>>

InitRoundTrip ==
  /\ rt_index_domain \in { <<lo, lo + MaxCells - 1>> : lo \in IndexDomainLows }
  /\ rt_indexed_array = [p \in 1..MaxCells |-> FillValue]
  /\ rt_labelled_array = {}
  /\ rt_label_buffer \in { [p \in 1..n |-> 0] : n \in 1..(MaxCells + 1) }
  /\ rt_read_query = "null"
  /\ rt_read_range = <<>>
  /\ rt_call = RoundTripCall("none", TRUE, FALSE, <<>>, <<>>, <<>>)

NextRoundTrip ==
  \/ ordered_write
  \/ DimensionLabelReadDataQuery
  \/ process_read

(***************************************************************************)
(* DimensionLabelQueries: the range queries and data queries of one parent *)
(* query.  The parent array has two dimensions over the index domain       *)
(* 1..MaxCells and three dimension labels of fixed-size label values.      *)
(*   subarray[d].label: the label the ranges of dimension d are set by,    *)
(*     "none" when the dimension has no label ranges,                      *)
(*   subarray[d].num_label_ranges: the number of those label ranges,       *)
(*   subarray[d].ranges: the index ranges of dimension d,                  *)
(*   label_data_buffers[l].set: the caller gave a buffer for label l,      *)
(*   label_data_buffers[l].holds: the index ranges whose label values the  *)
(*     buffer holds (<<>> while nothing was read into it),                 *)
(*   range_queries_[l], data_queries_[l]: the query of label l, of status  *)
(*     "null" when the map has no query for l.                             *)
(***************************************************************************)
DimensionLabels == {"L1", "L2", "L3"}

Dimensions == {1, 2}

\* DimensionLabelReference::dimension_id of the labels of the schema.
dimension_id(label_name) == IF label_name = "L3" THEN 2 ELSE 1

\* DimensionLabelReference::label_order of the labels of the schema.
label_order(label_name) ==
  IF label_name = "L1" THEN "INCREASING_LABELS"
  ELSE IF label_name = "L2" THEN "UNORDERED_LABELS"
  ELSE "DECREASING_LABELS"

\* The whole index domain of a dimension, as the ranges of a default subarray.
DefaultRanges == << <<1, MaxCells>> >>

\* Subarray::is_default(dim_idx)
is_default(sub, d) == sub[d].label = "none" /\ sub[d].ranges = DefaultRanges

\* Subarray::has_label_ranges(dim_idx)
subarray_has_label_ranges(sub, d) == sub[d].label # "none"

\* Subarrays the caller may pass.
DimensionRanges(d) ==
  { [label |-> "none", num_label_ranges |-> 0, ranges |-> r] :
      r \in {DefaultRanges, << <<1, 2>> >>} }
  \cup { [label |-> l, num_label_ranges |-> n, ranges |-> DefaultRanges] :
           l \in { k \in DimensionLabels : dimension_id(k) = d }, n \in 1..2 }

Subarrays == { s \in [Dimensions -> UNION { DimensionRanges(d) : d \in Dimensions }] :
                 \A d \in Dimensions : s[d] \in DimensionRanges(d) }

\* Index ranges a range query can compute: two proper parts of the index
\* domain.
IndexRanges == { <<1, 2>>, <<2, MaxCells>> }

NullRangeQuery == [status |-> "null", index_range |-> <<>>]

NullDataQuery ==
  [status |-> "null", ranges |-> <<>>, opened_as |-> "none",
   indexed_array_query |-> FALSE, labelled_array_query |-> FALSE]

\* DimensionLabelDataQuery::DimensionLabelDataQuery on a label opened under
\* opened_as: the child queries it owns are the ones asked for.
DimensionLabelDataQuery(ranges, opened_as, add_indexed_query, add_labelled_query) ==
  [status |-> "UNINITIALIZED", ranges |-> ranges, opened_as |-> opened_as,
   indexed_array_query |-> add_indexed_query,
   labelled_array_query |-> add_labelled_query]

NoBuffer == [set |-> FALSE, holds |-> <<>>]

EmptyBuffer == [set |-> TRUE, holds |-> <<>>]

\* The checks of open_dimension_label: what the stored schema of an opened
\* label can disagree in with the label reference of the parent schema.
SchemaChecks ==
  {"index_dimension", "label_order", "label_type", "label_domain",
   "label_cell_val_num"}

open_dimension_label_skips_domain(mismatch, open_indexed_array, open_labelled_array) ==
  /\ open_indexed_array \/ open_labelled_array
  /\ mismatch \in SchemaChecks \ {"label_domain"}

\* open_dimension_label throws: mismatch is the check the stored schema of
\* the label fails, "none" when it agrees with the label reference.
open_dimension_label_throws(mismatch, open_indexed_array, open_labelled_array) ==
  /\ open_indexed_array \/ open_labelled_array
  /\ mismatch \in SchemaChecks

\* add_range_queries: one range query per dimension with label ranges.  The
\* error of a dimension is the first exception its pass raises, "none" when
\* it raises none.
add_range_queries_error(sub, buffers, array_buffers, dense, mismatch, d) ==
  LET l == sub[d].label
  IN IF buffers[l].set /\ dense THEN "label_data_not_implemented"
     ELSE IF label_order(l) = "UNORDERED_LABELS"
       THEN IF d \notin array_buffers THEN "missing_index_buffer" ELSE "todo"
     ELSE IF open_dimension_label_throws(mismatch, FALSE, TRUE)
       THEN "schema_mismatch"
     ELSE IF sub[d].num_label_ranges # 1 THEN "range_query"
     ELSE "none"

\* The dimensions are passed in order: the error is that of the first
\* dimension that raises one.
add_range_queries(sub, buffers, array_buffers, dense, mismatch) ==
  LET erring == { d \in Dimensions :
                    /\ subarray_has_label_ranges(sub, d)
                    /\ add_range_queries_error(sub, buffers, array_buffers,
                                               dense, mismatch, d) # "none" }
      first == CHOOSE d \in erring : \A e \in erring : d <= e
  IN [errors |-> IF erring = {} THEN {}
                 ELSE {add_range_queries_error(sub, buffers, array_buffers,
                                               dense, mismatch, first)},
      queries |-> [l \in DimensionLabels |->
                     IF \E d \in Dimensions : sub[d].label = l
                       THEN [status |-> "UNINITIALIZED", index_range |-> <<>>]
                       ELSE NullRangeQuery]]

\* The labels add_data_queries_for_read / add_data_queries_for_write pass over.
skips_data_query(range_queries, l) == range_queries[l].status # "null"

\* add_data_queries_for_read: one read data query per label buffer, over the
\* ranges the subarray has on the label's dimension at this moment.  The
\* label buffers are passed in the order of the map: errors holds the
\* exception each label would raise.
add_data_queries_for_read(sub, buffers, mismatch, range_queries) ==
  [errors |-> { "schema_mismatch" : l \in
                  { k \in DimensionLabels :
                      /\ buffers[k].set
                      /\ ~skips_data_query(range_queries, k)
                      /\ open_dimension_label_throws(mismatch, TRUE, FALSE) } },
   queries |-> [l \in DimensionLabels |->
                  IF ~buffers[l].set \/ skips_data_query(range_queries, l)
                    THEN NullDataQuery
                    ELSE DimensionLabelDataQuery(sub[dimension_id(l)].ranges,
                                                 "READ", TRUE, FALSE)]]

\* The index buffer of the parent dimension is missing, whatever the order of
\* the label.
missing_index_buffer(array_buffers, l) == dimension_id(l) \notin array_buffers

\* add_data_queries_for_write: the first exception the pass of one label
\* buffer raises, "none" when it raises none.
add_data_queries_for_write_error(sub, array_buffers, arrays_empty, mismatch, l) ==
  IF open_dimension_label_throws(mismatch, TRUE, FALSE) THEN "schema_mismatch"
  ELSE IF missing_index_buffer(array_buffers, l) THEN "missing_index_buffer"
  ELSE IF label_order(l) # "UNORDERED_LABELS" /\ ~arrays_empty
    THEN "single_fragment"
  ELSE IF label_order(l) # "UNORDERED_LABELS" /\ ~is_default(sub, dimension_id(l))
    THEN "full_array"
  ELSE "none"

add_data_queries_for_write(sub, buffers, array_buffers, arrays_empty, mismatch, range_queries) ==
  [errors |-> { add_data_queries_for_write_error(sub, array_buffers,
                                                 arrays_empty, mismatch, l) :
                  l \in { k \in DimensionLabels :
                            buffers[k].set /\ ~skips_data_query(range_queries, k) } }
              \ {"none"},
   queries |-> [l \in DimensionLabels |->
                  IF ~buffers[l].set \/ skips_data_query(range_queries, l)
                    THEN NullDataQuery
                    ELSE DimensionLabelDataQuery(sub[dimension_id(l)].ranges,
                                                 "READ", TRUE, FALSE)]]

\* has_label_ranges / status_range_query of the aggregate, by label.
has_label_ranges(l) == range_queries_[l].status # "null"

status_range_query(l) ==
  IF has_label_ranges(l) THEN range_queries_[l].status ELSE "throw"

\* The query types of the parent array.
ArrayQueryTypes == QueryType \cup {"DELETE", "UPDATE", "MODIFY_EXCLUSIVE"}

\* The index buffers of the parent dimensions the caller may pass.
ArrayBuffers == {{}, Dimensions}

DefaultSubarray ==
  [d \in Dimensions |->
     [label |-> "none", num_label_ranges |-> 0, ranges |-> DefaultRanges]]

\* The arguments of the constructor, as the record of the call keeps them.
NoArguments ==
  [query_type |-> "READ", dense |-> FALSE, subarray |-> DefaultSubarray,
   label_buffers |-> {}, array_buffers |-> {}, arrays_empty |-> TRUE,
   mismatch |-> "none"]

\* Record of a call: processed is the set of labels whose query the call
\* invoked, subarray the parent subarray before the call, repeated tells that
\* the call is a cancel() that follows a cancel().
AggregateCall(op, ok, processed, before) ==
  [op |-> op, ok |-> ok, processed |-> processed, subarray |-> before,
   error |-> "none", arguments |-> NoArguments,
   repeated |-> op = "cancel" /\ last_aggregate_call.op = "cancel"]

\* The labels whose range query / data query the aggregate owns.
owned_range_queries == { l \in DimensionLabels : range_queries_[l].status # "null" }

owned_data_queries == { l \in DimensionLabels : data_queries_[l].status # "null" }

\* The constructor: for READ the range queries, then the read data queries;
\* for WRITE the range queries, then the write data queries; any other query
\* type throws.  A data query of a write is built with the indexed-array
\* query only and the set-up then uses its absent labelled-array query: the
\* step either stops the construction or goes on.  A construction that
\* throws leaves no aggregate.
DimensionLabelQueries ==
  /\ aggregate_state = "none"
  /\ \E query_type \in ArrayQueryTypes, dense \in BOOLEAN, sub \in Subarrays,
        buffers \in [DimensionLabels -> {NoBuffer, EmptyBuffer}],
        array_buffers \in ArrayBuffers,
        arrays_empty \in BOOLEAN,
        mismatch \in SchemaChecks \cup {"none"},
        null_use_stops \in BOOLEAN :
       LET range_queries == add_range_queries(sub, buffers, array_buffers,
                                              dense, mismatch)
           data_queries_new ==
             IF query_type = "READ"
               THEN add_data_queries_for_read(sub, buffers, mismatch,
                                              range_queries.queries)
               ELSE add_data_queries_for_write(sub, buffers, array_buffers,
                                               arrays_empty, mismatch,
                                               range_queries.queries)
           null_used == \E l \in DimensionLabels :
                          data_queries_new.queries[l].status # "null"
           errors ==
             IF query_type \notin {"READ", "WRITE"}
               THEN {"unsupported_query_type"}
             ELSE IF range_queries.errors # {} THEN range_queries.errors
             ELSE IF data_queries_new.errors # {} THEN data_queries_new.errors
             ELSE IF query_type = "WRITE" /\ null_used /\ null_use_stops
               THEN {"null_query"}
             ELSE {"none"}
       IN \E error \in errors :
          LET ok == error = "none"
          IN /\ query_type # "WRITE" => arrays_empty
             /\ query_type \notin {"READ", "WRITE"} =>
                  (~dense /\ array_buffers = {} /\ mismatch = "none")
             /\ (query_type = "WRITE" /\ null_used /\ errors \subseteq {"none", "null_query"})
                  \/ null_use_stops
             /\ array_query_type' = IF ok THEN query_type ELSE array_query_type
             /\ array_dense' = IF ok THEN dense ELSE array_dense
             /\ subarray' = IF ok THEN sub ELSE subarray
             /\ label_data_buffers' = IF ok THEN buffers ELSE label_data_buffers
             /\ range_queries_' = IF ok THEN range_queries.queries
                                       ELSE [l \in DimensionLabels |-> NullRangeQuery]
             /\ data_queries_' = IF ok THEN data_queries_new.queries
                                      ELSE [l \in DimensionLabels |-> NullDataQuery]
             /\ aggregate_state' = IF ok THEN "constructed" ELSE "failed"
             /\ last_aggregate_call' =
                  [AggregateCall("DimensionLabelQueries", ok, {},
                                 IF ok THEN sub ELSE subarray)
                     EXCEPT !.error = error,
                            !.arguments =
                              [query_type |-> query_type, dense |-> dense,
                               subarray |-> sub,
                               label_buffers |->
                                 { l \in DimensionLabels : buffers[l].set },
                               array_buffers |-> array_buffers,
                               arrays_empty |-> arrays_empty,
                               mismatch |-> mismatch]]
  /\ UNCHANGED <<range_vars, status_vars, write_vars, roundtrip_vars,
                 rangeops_vars, olq_vars>>

\* process_range_queries: processes the range queries one after the other,
\* in the order the map holds them; a range query that throws ends the call.
\* Outcomes of one range query: its probes return an error (the status stays),
\* a probe has no results (FAILED), or the index range is computed
\* (COMPLETED).
process_range_queries ==
  /\ aggregate_state = "constructed"
  /\ \E done \in SUBSET { l \in DimensionLabels : has_label_ranges(l) },
        thrower \in { l \in DimensionLabels : has_label_ranges(l) } \cup {"none"},
        no_results \in BOOLEAN :
     \E computed \in [done -> IndexRanges] :
       /\ thrower \notin done
       /\ thrower = "none" =>
            (done = { l \in DimensionLabels : has_label_ranges(l) } /\ ~no_results)
       /\ range_queries_' =
            [l \in DimensionLabels |->
               IF l \in done
                 THEN [status |-> "COMPLETED", index_range |-> computed[l]]
               ELSE IF l = thrower /\ no_results
                 THEN [range_queries_[l] EXCEPT !.status = "FAILED"]
               ELSE range_queries_[l]]
       /\ last_aggregate_call' =
            AggregateCall("process_range_queries", thrower = "none",
                          done \cup ({thrower} \ {"none"}), subarray)
  /\ UNCHANGED <<array_query_type, array_dense, subarray, label_data_buffers,
                 data_queries_, aggregate_state>>
  /\ UNCHANGED <<range_vars, status_vars, write_vars, roundtrip_vars,
                 rangeops_vars, olq_vars>>

\* process_data_queries: processes the data queries one after the other; a
\* data query that throws ends the call.  A read data query that succeeds
\* fills the label buffer with the label values of its ranges.
process_data_queries ==
  /\ aggregate_state = "constructed"
  /\ \E done \in SUBSET { l \in DimensionLabels : data_queries_[l].status # "null" },
        thrower \in { l \in DimensionLabels : data_queries_[l].status # "null" } \cup {"none"} :
       /\ thrower \notin done
       /\ thrower = "none" =>
            done = { l \in DimensionLabels : data_queries_[l].status # "null" }
       /\ data_queries_' =
            [l \in DimensionLabels |->
               IF l \in done
                 THEN [data_queries_[l] EXCEPT !.status = "COMPLETED"]
               ELSE IF l = thrower
                 THEN [data_queries_[l] EXCEPT !.status = "FAILED"]
               ELSE data_queries_[l]]
       /\ label_data_buffers' =
            [l \in DimensionLabels |->
               IF l \in done /\ array_query_type = "READ"
                 THEN [label_data_buffers[l] EXCEPT !.holds = data_queries_[l].ranges]
                 ELSE label_data_buffers[l]]
       /\ last_aggregate_call' =
            AggregateCall("process_data_queries", thrower = "none",
                          done \cup ({thrower} \ {"none"}), subarray)
  /\ UNCHANGED <<array_query_type, array_dense, subarray, range_queries_,
                 aggregate_state>>
  /\ UNCHANGED <<range_vars, status_vars, write_vars, roundtrip_vars,
                 rangeops_vars, olq_vars>>

\* cancel: cancels the probes of every range query (its status_ is not
\* touched) and the child queries of every data query.  Cancelling a child
\* query reports no error.
cancel_data_query_toggle(q) ==
  [q EXCEPT !.status = IF q.status = "FAILED" THEN "UNINITIALIZED" ELSE "FAILED"]

cancel_data_query(q) == [q EXCEPT !.status = QueryCancel(QueryNew).status]

cancel_queries ==
  /\ aggregate_state = "constructed"
  /\ data_queries_' =
       [l \in DimensionLabels |->
          IF data_queries_[l].status = "null" THEN NullDataQuery
          ELSE cancel_data_query(data_queries_[l])]
  /\ last_aggregate_call' =
       AggregateCall("cancel", TRUE, owned_range_queries \cup owned_data_queries,
                     subarray)
  /\ UNCHANGED <<array_query_type, array_dense, subarray, label_data_buffers,
                 range_queries_, aggregate_state>>
  /\ UNCHANGED <<range_vars, status_vars, write_vars, roundtrip_vars,
                 rangeops_vars, olq_vars>>

\* finalize: finalizes the range queries one after the other, then the data
\* queries; a query whose child reports an error throws and ends the call.
finalize_queries ==
  /\ aggregate_state = "constructed"
  /\ \E done \in SUBSET (owned_range_queries \cup owned_data_queries),
        thrower \in owned_range_queries \cup owned_data_queries \cup {"none"} :
       /\ thrower \notin done
       /\ thrower = "none" => done = owned_range_queries \cup owned_data_queries
       /\ thrower \in owned_range_queries => done \subseteq owned_range_queries
       /\ (done \cup {thrower}) \cap owned_data_queries # {} =>
            owned_range_queries \subseteq done
       /\ last_aggregate_call' =
            AggregateCall("finalize", thrower = "none",
                          done \cup ({thrower} \ {"none"}), subarray)
  /\ UNCHANGED <<array_query_type, array_dense, subarray, label_data_buffers,
                 range_queries_, data_queries_, aggregate_state>>
  /\ UNCHANGED <<range_vars, status_vars, write_vars, roundtrip_vars,
                 rangeops_vars, olq_vars>>

InitAggregate ==
  /\ array_query_type = "READ"
  /\ array_dense = FALSE
  /\ subarray = DefaultSubarray
  /\ label_data_buffers = [l \in DimensionLabels |-> NoBuffer]
  /\ range_queries_ = [l \in DimensionLabels |-> NullRangeQuery]
  /\ data_queries_ = [l \in DimensionLabels |-> NullDataQuery]
  /\ aggregate_state = "none"
  /\ last_aggregate_call =
       [op |-> "none", ok |-> TRUE, processed |-> {}, subarray |-> DefaultSubarray,
        error |-> "none", arguments |-> NoArguments, repeated |-> FALSE]

NextAggregate ==
  \/ DimensionLabelQueries
  \/ process_range_queries
  \/ process_data_queries
  \/ cancel_queries
  \/ finalize_queries

(***************************************************************************)
(* Range endpoint operations: comparisons of one endpoint of two ranges    *)
(* and in-place steps of one endpoint, on ranges whose endpoints lie next  *)
(* to the bounds of the type.                                              *)
(***************************************************************************)
EndpointValues(type) ==
  {0, 1, 2, TypeModulus(type) - 2, TypeModulus(type) - 1}

TypedRanges(type) ==
  { r \in { <<lo, hi>> : lo \in EndpointValues(type),
                          hi \in EndpointValues(type) } : r[1] <= r[2] }

NoComparison == [less_than |-> FALSE, equal |-> FALSE, greater_than |-> FALSE]

RangeCall(op, before, results) ==
  [op |-> op, before |-> before, results |-> results]

\* The three comparisons of the lower endpoints of two ranges.
compare_lower_bounds ==
  /\ ro_call' = RangeCall("compare_lower_bounds", ro_range1,
        [less_than |-> lower_bound_less_than(ro_range1, ro_range2),
         equal |-> lower_bound_equal(ro_range1, ro_range2),
         greater_than |-> lower_bound_greater_than(ro_range1, ro_range2)])
  /\ UNCHANGED <<ro_type, ro_range1, ro_range2, ro_steps>>
  /\ UNCHANGED <<range_vars, status_vars, write_vars, roundtrip_vars,
                 aggregate_vars, olq_vars>>

\* The three comparisons of the upper endpoints of two ranges.
compare_upper_bounds ==
  /\ ro_call' = RangeCall("compare_upper_bounds", ro_range1,
        [less_than |-> upper_bound_less_than(ro_range1, ro_range2),
         equal |-> upper_bound_equal(ro_range1, ro_range2),
         greater_than |-> upper_bound_greater_than(ro_range1, ro_range2)])
  /\ UNCHANGED <<ro_type, ro_range1, ro_range2, ro_steps>>
  /\ UNCHANGED <<range_vars, status_vars, write_vars, roundtrip_vars,
                 aggregate_vars, olq_vars>>

\* An in-place step of ro_range1.
RangeStep(op, stepped) ==
  /\ ro_steps < MaxSteps
  /\ ro_steps' = ro_steps + 1
  /\ ro_range1' = stepped
  /\ ro_call' = RangeCall(op, ro_range1, NoComparison)
  /\ UNCHANGED <<ro_type, ro_range2>>
  /\ UNCHANGED <<range_vars, status_vars, write_vars, roundtrip_vars,
                 aggregate_vars, olq_vars>>

decrease_lower_bound_call ==
  RangeStep("decrease_lower_bound", decrease_lower_bound(ro_range1, ro_type))

increase_lower_bound_call ==
  RangeStep("increase_lower_bound", increase_lower_bound(ro_range1, ro_type))

decrease_upper_bound_call ==
  RangeStep("decrease_upper_bound", decrease_upper_bound(ro_range1, ro_type))

increase_upper_bound_call ==
  RangeStep("increase_upper_bound", increase_upper_bound(ro_range1, ro_type))

InitRangeOps ==
  /\ ro_type \in Datatype
  /\ ro_range1 \in TypedRanges(ro_type)
  /\ ro_range2 \in TypedRanges(ro_type)
  /\ ro_steps = 0
  /\ ro_call = [op |-> "none", before |-> <<>>, results |-> NoComparison]

NextRangeOps ==
  \/ compare_lower_bounds
  \/ compare_upper_bounds
  \/ decrease_lower_bound_call
  \/ increase_lower_bound_call
  \/ decrease_upper_bound_call
  \/ increase_upper_bound_call

(***************************************************************************)
(* RangeQuery, the range query of an OrderedLabelsQuery over an increasing *)
(* label with an 8-bit index.  resolve_labels runs submit and then, when   *)
(* submit returned Ok, finalize; OrderedLabelsQuery::finalize runs         *)
(* finalize; get_index_range may be called at any point.  A probe is       *)
(* submitted once.                                                         *)
(***************************************************************************)
NullRangeQuery_ ==
  [exists |-> FALSE, status |-> "UNINITIALIZED", submitted |-> FALSE,
   lower_bound_query_ |-> QueryNew, upper_bound_query_ |-> QueryNew,
   label_range_mismatch |-> FALSE, computed_index_range_ |-> <<>>,
   corrections |-> 0]

OlqCall(op, ok, lower_ok, upper_ok, range) ==
  [op |-> op, ok |-> ok, lower_ok |-> lower_ok, upper_ok |-> upper_ok,
   range |-> range]

\* RangeQuery::RangeQuery, as add_label_range constructs it: the computed
\* index range starts as the domain of the index dimension.
RangeQuery ==
  /\ ~olq_range_query.exists
  /\ olq_range_query' =
       [NullRangeQuery_ EXCEPT !.exists = TRUE,
                               !.computed_index_range_ = olq_domain]
  /\ olq_call' = OlqCall("add_label_range", TRUE, TRUE, TRUE, <<>>)
  /\ UNCHANGED <<olq_domain, olq_finalizes>>
  /\ UNCHANGED <<range_vars, status_vars, write_vars, roundtrip_vars,
                 aggregate_vars, rangeops_vars>>

\* Query::submit of a probe that reads its first cell, if there is one.
ProbeSubmitted(q, has_results) ==
  QueryProcessRead(q, IF has_results THEN 1 ELSE 0, FALSE)

\* RangeQuery::submit: the lower-bound probe, then the upper-bound probe.
\* A failed lower-bound submit cancels the upper-bound probe and returns the
\* error; after the upper-bound submit, `if (status.ok())` cancels the
\* lower-bound probe and returns; a failed upper-bound submit falls through
\* to `return Status::Ok()`.
RangeQuery_submit_result(rq, lower_ok, upper_ok, lower_results, upper_results, lower_index, upper_index, mismatch) ==
  IF ~lower_ok
    THEN [ok |-> FALSE,
          rq |-> [rq EXCEPT !.submitted = TRUE,
                    !.lower_bound_query_ = QueryProcessFailed(@),
                    !.upper_bound_query_ = QueryCancel(@)]]
    ELSE
      LET index1 == IF lower_results
                      THEN [rq.computed_index_range_ EXCEPT ![1] = lower_index]
                      ELSE rq.computed_index_range_
          lq == ProbeSubmitted(rq.lower_bound_query_, lower_results)
      IN IF upper_ok
           THEN [ok |-> TRUE,
                 rq |-> [rq EXCEPT !.submitted = TRUE,
                           !.lower_bound_query_ = QueryCancel(lq),
                           !.upper_bound_query_ = ProbeSubmitted(@, upper_results),
                           !.label_range_mismatch = upper_results /\ mismatch,
                           !.computed_index_range_ =
                              IF upper_results
                                THEN [index1 EXCEPT ![2] = upper_index]
                                ELSE index1]]
           ELSE [ok |-> TRUE,
                 rq |-> [rq EXCEPT !.submitted = TRUE,
                           !.lower_bound_query_ = lq,
                           !.upper_bound_query_ = QueryProcessFailed(@),
                           !.computed_index_range_ = index1]]

RangeQuery_submit ==
  /\ olq_range_query.exists
  /\ ~olq_range_query.submitted
  /\ \E lower_ok \in BOOLEAN, upper_ok \in BOOLEAN,
        lower_results \in BOOLEAN, upper_results \in BOOLEAN,
        lower_index \in olq_domain[1]..olq_domain[2],
        upper_index \in olq_domain[1]..olq_domain[2],
        mismatch \in BOOLEAN :
       LET result == RangeQuery_submit_result(olq_range_query, lower_ok,
                       upper_ok, lower_results, upper_results, lower_index,
                       upper_index, mismatch)
       IN \* inputs that are not read stand at one value
          /\ ~lower_ok => (upper_ok /\ lower_results /\ upper_results)
          /\ ~upper_ok => upper_results
          /\ (~lower_ok \/ ~lower_results) => lower_index = olq_domain[1]
          /\ (~lower_ok \/ ~upper_ok \/ ~upper_results) =>
               (upper_index = olq_domain[1] /\ ~mismatch)
          /\ lower_index <= upper_index
          /\ olq_range_query' = result.rq
          /\ olq_call' = OlqCall("submit", result.ok, lower_ok, upper_ok, <<>>)
  /\ UNCHANGED <<olq_domain, olq_finalizes>>
  /\ UNCHANGED <<range_vars, status_vars, write_vars, roundtrip_vars,
                 aggregate_vars, rangeops_vars>>

\* RangeQuery::finalize: FAILED when a probe has no results; otherwise the
\* correction of the computed index range, when the computed label range
\* reaches beyond the input label range, and COMPLETED.
RangeQuery_finalize_result(rq) ==
  IF ~rq.lower_bound_query_.has_results \/ ~rq.upper_bound_query_.has_results
    THEN [ok |-> FALSE,
          rq |-> [rq EXCEPT !.status = "FAILED",
                    !.lower_bound_query_ = QueryFinalize(@),
                    !.upper_bound_query_ = QueryFinalize(@)]]
    ELSE [ok |-> TRUE,
          rq |-> [rq EXCEPT !.status = "COMPLETED",
                    !.computed_index_range_ =
                       IF rq.label_range_mismatch THEN fix_index_range_(@) ELSE @,
                    !.corrections =
                       IF rq.label_range_mismatch THEN @ + 1 ELSE @,
                    !.lower_bound_query_ = QueryFinalize(@),
                    !.upper_bound_query_ = QueryFinalize(@)]]

RangeQuery_finalize ==
  /\ olq_range_query.exists
  /\ olq_finalizes < MaxFinalizes
  /\ olq_finalizes' = olq_finalizes + 1
  /\ olq_range_query' = RangeQuery_finalize_result(olq_range_query).rq
  /\ olq_call' = OlqCall("finalize", RangeQuery_finalize_result(olq_range_query).ok,
                         TRUE, TRUE, olq_range_query.computed_index_range_)
  /\ UNCHANGED olq_domain
  /\ UNCHANGED <<range_vars, status_vars, write_vars, roundtrip_vars,
                 aggregate_vars, rangeops_vars>>

\* RangeQuery::cancel: cancels the two probes.
RangeQuery_cancel ==
  /\ olq_range_query.exists
  /\ olq_range_query' =
       [olq_range_query EXCEPT !.lower_bound_query_ = QueryCancel(@),
                               !.upper_bound_query_ = QueryCancel(@)]
  /\ olq_call' = OlqCall("cancel", TRUE, TRUE, TRUE, <<>>)
  /\ UNCHANGED <<olq_domain, olq_finalizes>>
  /\ UNCHANGED <<range_vars, status_vars, write_vars, roundtrip_vars,
                 aggregate_vars, rangeops_vars>>

\* A status check that passes as soon as the probes were submitted.
get_index_range_ok_submitted(rq) == rq.exists /\ rq.submitted

\* OrderedLabelsQuery::get_index_range: an error without a range query and
\* while the range query's status is not COMPLETED.
get_index_range_ok(rq) == rq.exists /\ rq.status = "COMPLETED"

get_index_range ==
  /\ olq_call' =
       OlqCall("get_index_range", get_index_range_ok(olq_range_query),
               TRUE, TRUE, olq_range_query.computed_index_range_)
  /\ UNCHANGED <<olq_domain, olq_range_query, olq_finalizes>>
  /\ UNCHANGED <<range_vars, status_vars, write_vars, roundtrip_vars,
                 aggregate_vars, rangeops_vars>>

InitOrderedRange ==
  /\ olq_domain \in { <<lo, lo + MaxCells - 1>> : lo \in IndexDomainLows }
  /\ olq_range_query = NullRangeQuery_
  /\ olq_finalizes = 0
  /\ olq_call = OlqCall("none", TRUE, TRUE, TRUE, <<>>)

NextOrderedRange ==
  \/ RangeQuery
  \/ RangeQuery_submit
  \/ RangeQuery_finalize
  \/ RangeQuery_cancel
  \/ get_index_range

(***************************************************************************)
(* Specifications.  Each exercises one part of the program and holds the   *)
(* state of the other parts at its initial value.                          *)
(***************************************************************************)
IdleRange ==
  /\ order_ = "INCREASING_LABELS"
  /\ index_type = "UINT8"
  /\ label_type = "UINT8"
  /\ index_domain = <<1, 1>>
  /\ label_data = <<0>>
  /\ labelled_array = <<[label |-> 0, index |-> 1]>>
  /\ rq_state = "none"
  /\ rq_error = FALSE
  /\ rq_label_ranges = <<>>
  /\ input_label_range_ = <<>>
  /\ computed_label_range_ = <<>>
  /\ computed_index_range_ = <<>>
  /\ lower_bound_query_ = QueryNew
  /\ upper_bound_query_ = QueryNew
  /\ buffer_sizes = [lower_bound_index_buffer_size_ |-> 0,
                     lower_bound_label_buffer_size_ |-> 0,
                     upper_bound_index_buffer_size_ |-> 0,
                     upper_bound_label_buffer_size_ |-> 0]
  /\ status_ = "UNINITIALIZED"

IdleWrite ==
  /\ label_query_type = "WRITE"
  /\ indexed_fragments = <<>>
  /\ labelled_fragments = <<>>
  /\ write_queries = <<>>
  /\ last_write_call = WriteCall("none", 0, "WRITE", TRUE) @@ [is_default |-> TRUE]

IdleStatus ==
  /\ labelled_status = "UNINITIALIZED"
  /\ indexed_status = "UNINITIALIZED"
  /\ data_queries = "none"
  /\ unordered_result = "none"
  /\ ordered_result = "none"

IdleRoundTrip ==
  /\ rt_index_domain = <<1, MaxCells>>
  /\ rt_indexed_array = [p \in 1..MaxCells |-> FillValue]
  /\ rt_labelled_array = {}
  /\ rt_label_buffer = <<0>>
  /\ rt_read_query = "null"
  /\ rt_read_range = <<>>
  /\ rt_call = RoundTripCall("none", TRUE, FALSE, <<>>, <<>>, <<>>)

IdleAggregate == InitAggregate

IdleOrderedRange ==
  /\ olq_domain = <<1, MaxCells>>
  /\ olq_range_query = NullRangeQuery_
  /\ olq_finalizes = 0
  /\ olq_call = OlqCall("none", TRUE, TRUE, TRUE, <<>>)

IdleRangeOps ==
  /\ ro_type = "UINT8"
  /\ ro_range1 = <<0, 0>>
  /\ ro_range2 = <<0, 0>>
  /\ ro_steps = 0
  /\ ro_call = [op |-> "none", before |-> <<>>, results |-> NoComparison]

\* The range query over a written dimension label.
Init ==
  InitRange /\ IdleStatus /\ IdleWrite /\ IdleRoundTrip /\ IdleAggregate
    /\ IdleRangeOps /\ IdleOrderedRange
Next == NextRange
Spec == Init /\ [][Next]_vars

\* The status functions over every pair of child statuses.
InitSpecStatus ==
  IdleRange /\ InitStatus /\ IdleWrite /\ IdleRoundTrip /\ IdleAggregate
    /\ IdleRangeOps /\ IdleOrderedRange
SpecStatus == InitSpecStatus /\ [][NextStatus]_vars

\* The ordered-write queries on a newly created dimension label.
InitSpecWrite ==
  IdleRange /\ IdleStatus /\ InitWrite /\ IdleRoundTrip /\ IdleAggregate
    /\ IdleRangeOps /\ IdleOrderedRange
SpecWrite == InitSpecWrite /\ [][NextWrite]_vars

\* The write of an ordered dimension label and the read of its label data.
InitSpecRoundTrip ==
  IdleRange /\ IdleStatus /\ IdleWrite /\ InitRoundTrip /\ IdleAggregate
    /\ IdleRangeOps /\ IdleOrderedRange
SpecRoundTrip == InitSpecRoundTrip /\ [][NextRoundTrip]_vars

\* The range queries and data queries of one parent query.
InitSpecAggregate ==
  IdleRange /\ IdleStatus /\ IdleWrite /\ IdleRoundTrip /\ InitAggregate
    /\ IdleRangeOps /\ IdleOrderedRange
SpecAggregate == InitSpecAggregate /\ [][NextAggregate]_vars

\* The range endpoint operations on ranges drawn next to the type's bounds.
InitSpecRangeOps ==
  IdleRange /\ IdleStatus /\ IdleWrite /\ IdleRoundTrip /\ IdleAggregate
    /\ InitRangeOps /\ IdleOrderedRange
SpecRangeOps == InitSpecRangeOps /\ [][NextRangeOps]_vars

\* The range query of an OrderedLabelsQuery.
InitSpecOrderedRange ==
  IdleRange /\ IdleStatus /\ IdleWrite /\ IdleRoundTrip /\ IdleAggregate
    /\ IdleRangeOps /\ InitOrderedRange
SpecOrderedRange == InitSpecOrderedRange /\ [][NextOrderedRange]_vars


(***************************************************************************)
(* Properties of the range query (specification Spec).                     *)
(***************************************************************************)
StoredIndices == index_domain[1]..index_domain[2]

\* The label stored at index k.
LabelOf(k) == label_data[k - index_domain[1] + 1]

InInputRange(label) ==
  input_label_range_[1] <= label /\ label <= input_label_range_[2]

InIndexRange(k) ==
  computed_index_range_[1] <= k /\ k <= computed_index_range_[2]

\* Every value of the index type.
IndexValues == 0..(TypeModulus(index_type) - 1)

StrictlyIncreasing(data) == \A p \in 1..(Len(data) - 1) : data[p] < data[p + 1]
StrictlyDecreasing(data) == \A p \in 1..(Len(data) - 1) : data[p] > data[p + 1]

\* Both probes were processed without an error of the read itself.
ProbesProcessed ==
  /\ rq_state = "submitted"
  /\ lower_bound_query_.status \in {"COMPLETED", "INCOMPLETE"}
  /\ upper_bound_query_.status \in {"COMPLETED", "INCOMPLETE"}

\* C1: range containment, INCREASING: when the range query of an increasing
\* label ends COMPLETED, every index inside the returned index range has a
\* stored label, and that label lies in the input label range.
C1_Containment ==
  (status_ = "COMPLETED" /\ order_ = "INCREASING_LABELS"
     /\ StrictlyIncreasing(label_data))
    => \A k \in IndexValues :
         InIndexRange(k) => (k \in StoredIndices /\ InInputRange(LabelOf(k)))

\* C2 as stated: minimality, INCREASING, for every monotonically non-decreasing
\* label sequence (repeated label values included): when the range query ends
\* COMPLETED, no index outside the returned index range has a stored label in
\* the input label range.
C2_MinimalityNonDecreasing ==
  (status_ = "COMPLETED" /\ order_ = "INCREASING_LABELS")
    => \A k \in StoredIndices :
         ~InIndexRange(k) => ~InInputRange(LabelOf(k))

\* C2 as amended: minimality, INCREASING, for every strictly increasing label
\* sequence: when the range query ends COMPLETED, no index outside the
\* returned index range has a stored label in the input label range.
C2_MinimalityStrictlyIncreasing ==
  (status_ = "COMPLETED" /\ order_ = "INCREASING_LABELS"
     /\ StrictlyIncreasing(label_data))
    => \A k \in StoredIndices :
         ~InIndexRange(k) => ~InInputRange(LabelOf(k))

\* C2, witness: a completed range query over three strictly increasing labels
\* whose upper probe overshot and was corrected, with a stored index inside
\* and a stored index outside the returned range.
C2_Witness ==
  /\ status_ = "COMPLETED"
  /\ order_ = "INCREASING_LABELS"
  /\ Len(label_data) = 3
  /\ StrictlyIncreasing(label_data)
  /\ computed_label_range_[2] > input_label_range_[2]
  /\ \E k \in StoredIndices : InIndexRange(k)
  /\ \E k \in StoredIndices : ~InIndexRange(k)

\* C3: DECREASING labels: when the range query of a decreasing label ends
\* COMPLETED, the returned index range is exactly the set of indices whose
\* stored label lies in the input label range.
C3_DecreasingExact ==
  (status_ = "COMPLETED" /\ order_ = "DECREASING_LABELS"
     /\ StrictlyDecreasing(label_data))
    => \A k \in IndexValues :
         InIndexRange(k) <=> (k \in StoredIndices /\ InInputRange(LabelOf(k)))

\* C4: a range query whose input upper bound is greater than every stored
\* label and whose range contains a stored label ends COMPLETED, for both
\* label orders, with the index range of exactly the contained labels.
C4_UpperBoundBeyondLabels ==
  (/\ ProbesProcessed
   /\ index_type = label_type
   /\ \A k \in StoredIndices : LabelOf(k) < input_label_range_[2]
   /\ \E k \in StoredIndices : InInputRange(LabelOf(k)))
    => /\ status_ = "COMPLETED"
       /\ \A k \in StoredIndices : InIndexRange(k) <=> InInputRange(LabelOf(k))

\* C5: empty result: when both probes return a cell and no stored label lies
\* in the input label range, index_range() is the empty (absent) range.
C5_EmptyResult ==
  (/\ ProbesProcessed
   /\ lower_bound_query_.has_results
   /\ upper_bound_query_.has_results
   /\ \A k \in StoredIndices : ~InInputRange(LabelOf(k)))
    => RangeEmpty(computed_index_range_)

\* C6: when the lower or the upper probe returns no cell, the range query
\* ends FAILED, raises an error, and index_range() reports an empty range.
C6_NoCellFailsEmpty ==
  (/\ ProbesProcessed
   /\ (~lower_bound_query_.has_results \/ ~upper_bound_query_.has_results))
    => /\ status_ = "FAILED"
       /\ rq_error
       /\ RangeEmpty(computed_index_range_)

(***************************************************************************)
(* Properties of the status composition (specification SpecStatus).        *)
(***************************************************************************)
\* C7: FAILED dominates: when at least one child of a two-child data query
\* is FAILED, the composed status is FAILED whatever the other child's
\* status, in UnorderedLabelsWriteQuery::status and in
\* OrderedLabelsQuery::status_data_query.
C7_FailedDominates ==
  (labelled_status = "FAILED" \/ indexed_status = "FAILED")
    => /\ unordered_result # "none" => unordered_result = "FAILED"
       /\ (ordered_result # "none" /\ data_queries = "both")
            => ordered_result = "FAILED"

\* C8: when neither child is FAILED or UNINITIALIZED and at least one child is
\* INCOMPLETE, the composed status is INCOMPLETE, in both functions.
C8_IncompleteComposition ==
  (/\ {labelled_status, indexed_status} \cap {"FAILED", "UNINITIALIZED"} = {}
   /\ "INCOMPLETE" \in {labelled_status, indexed_status})
    => /\ unordered_result # "none" => unordered_result = "INCOMPLETE"
       /\ (ordered_result # "none" /\ data_queries = "both")
            => ordered_result = "INCOMPLETE"

\* The composed status the remaining cases of C9 ask for.
C9_Expected ==
  IF labelled_status = indexed_status THEN labelled_status
  ELSE IF "FAILED" \in {labelled_status, indexed_status} THEN "FAILED"
  ELSE IF "UNINITIALIZED" \in {labelled_status, indexed_status} THEN "throw"
  ELSE IF "INCOMPLETE" \in {labelled_status, indexed_status} THEN "INCOMPLETE"
  ELSE "INPROGRESS"

\* C9: remaining cases: two children of the same status compose to that
\* status; exactly one UNINITIALIZED child beside a child that is neither
\* UNINITIALIZED nor FAILED raises an error; one COMPLETED and one INPROGRESS
\* child compose to INPROGRESS; in both functions.
C9_RemainingCases ==
  (\/ labelled_status = indexed_status
   \/ /\ "UNINITIALIZED" \in {labelled_status, indexed_status}
      /\ "FAILED" \notin {labelled_status, indexed_status}
   \/ {labelled_status, indexed_status} = {"COMPLETED", "INPROGRESS"})
    => /\ unordered_result # "none" => unordered_result = C9_Expected
       /\ (ordered_result # "none" /\ data_queries = "both")
            => ordered_result = C9_Expected

(***************************************************************************)
(* Properties of the ordered writes (specification SpecWrite).             *)
(***************************************************************************)
\* The step constructs an ordered write: OrderedWriteDataQuery, or
\* OrderedLabelsQuery::initialize_data_query under WRITE.
OrderedWriteConstruction(call) ==
  \/ call.op = "OrderedWriteDataQuery"
  \/ call.op = "initialize_data_query" /\ call.query_type = "WRITE"

C11_FullDomainOnly ==
  [][ /\ (last_write_call'.op = "OrderedWriteDataQuery" /\ ~last_write_call'.is_default)
         => (~last_write_call'.ok /\ write_queries' = write_queries)
      /\ (last_write_call'.op = "set_index_ranges" /\ last_write_call'.query_type = "WRITE")
         => (~last_write_call'.ok /\ write_queries' = write_queries)
    ]_vars

\* C11, witness: set_index_ranges was called on a WRITE query whose data
\* queries exist, and was rejected.
C11_Witness ==
  /\ last_write_call.op = "set_index_ranges"
  /\ last_write_call.query_type = "WRITE"
  /\ ~last_write_call.ok
  /\ write_queries[last_write_call.query].indexed_array_query # "null"
  /\ write_queries[last_write_call.query].index_ranges = <<>>


\* The fragments write query i put in an array.
FragmentsOf(fragments, i) == SelectSeq(fragments, LAMBDA f : f.query = i)

\* C12: fragment pairing: for every write data query and every value of the
\* optional fragment-name hint, an absent hint included, the indexed-array
\* child and the labelled-array child write under one and the same fragment
\* name, so after a successful write the most recent fragments of the two
\* arrays carry equal timestamps.
C12_FragmentPairing ==
  \A i \in 1..Len(write_queries) :
    \A k \in 1..Len(indexed_fragments), l \in 1..Len(labelled_fragments) :
      (indexed_fragments[k].query = i /\ labelled_fragments[l].query = i)
        => /\ indexed_fragments[k].fragment_name = labelled_fragments[l].fragment_name
           /\ indexed_fragments[k].timestamp = labelled_fragments[l].timestamp

\* C13: a label write is atomic for readers: in every outcome of the two
\* child writes, the second child failing after the first succeeded included,
\* no reachable state has the fragment of a write in exactly one of the
\* indexed and the labelled array.
C13_AtomicWrite ==
  \A i \in 1..Len(write_queries) :
    write_queries[i].query_type_ = "WRITE"
      => (Len(FragmentsOf(indexed_fragments, i)) > 0
            <=> Len(FragmentsOf(labelled_fragments, i)) > 0)

C14_RoundTrip ==
  (/\ rt_call.op = "process_read"
   /\ rt_call.ok
   /\ rt_call.written
   /\ rt_read_query = "COMPLETED")
  => LET lo == rt_read_range[1]
         hi == rt_read_range[2]
         first == lo - rt_index_domain[1] + 1
     IN /\ Len(rt_label_buffer) = Len(rt_call.before)
        /\ \A p \in 1..Len(rt_label_buffer) :
             rt_label_buffer[p] =
               IF p <= hi - lo + 1 THEN rt_call.label_buffer[first + p - 1]
                                   ELSE rt_call.before[p]
        /\ rt_labelled_array =
             { [label |-> rt_call.label_buffer[p], index |-> rt_call.index_buffer[p]] :
                 p \in 1..Len(rt_call.label_buffer) }

\* A completed read of an inner index range into a larger buffer, after a
\* successful write.
C14_Witness ==
  /\ rt_call.op = "process_read"
  /\ rt_call.ok
  /\ rt_call.written
  /\ rt_read_query = "COMPLETED"
  /\ rt_read_range[1] > rt_index_domain[1]
  /\ rt_read_range[2] > rt_read_range[1]
  /\ Len(rt_label_buffer) > rt_read_range[2] - rt_read_range[1] + 1
  /\ rt_label_buffer # rt_call.before

\* C15: subarray barrier.  A call of process_data_queries made while some
\* label with label ranges has a range query whose status is not COMPLETED
\* processes no data query.
C15_SubarrayBarrier ==
  [][ (/\ last_aggregate_call'.op = "process_data_queries"
       /\ \E l \in DimensionLabels :
            has_label_ranges(l) /\ status_range_query(l) # "COMPLETED")
      => last_aggregate_call'.processed = {} ]_vars

\* C17: process_range_queries installs its results.  After it returns without
\* error, every range query is COMPLETED and the parent subarray has, on the
\* dimension of each label with label ranges, exactly the index range that
\* label's range query computed.
C17_InstallsResults ==
  (last_aggregate_call.op = "process_range_queries" /\ last_aggregate_call.ok)
  => \A l \in DimensionLabels :
       has_label_ranges(l) =>
         /\ status_range_query(l) = "COMPLETED"
         /\ subarray[dimension_id(l)].ranges = << range_queries_[l].index_range >>

\* C18: range resolution is all-or-nothing.  After process_range_queries
\* ended in the failure of a range query, the parent subarray has on every
\* dimension the index ranges it had before the call, and the range queries
\* report the status FAILED.
C18_AllOrNothing ==
  (last_aggregate_call.op = "process_range_queries" /\ ~last_aggregate_call.ok)
  => /\ \A d \in Dimensions :
          subarray[d].ranges = last_aggregate_call.subarray[d].ranges
     /\ \E l \in DimensionLabels :
          has_label_ranges(l) /\ status_range_query(l) = "FAILED"

\* C19: read data queries use the resolved ranges.  In a READ, a data query
\* that process_data_queries completes for a label of a dimension whose
\* label ranges (set by another label) are already resolved reads the label
\* values of the resolved index range.
C19_ReadsResolvedRanges ==
  [][ (last_aggregate_call'.op = "process_data_queries" /\ array_query_type = "READ")
      => \A l1, l2 \in DimensionLabels :
           (/\ has_label_ranges(l1)
            /\ status_range_query(l1) = "COMPLETED"
            /\ dimension_id(l1) = dimension_id(l2)
            /\ l2 \in last_aggregate_call'.processed
            /\ data_queries_'[l2].status = "COMPLETED")
           => label_data_buffers'[l2].holds = << range_queries_[l1].index_range >> ]_vars

\* C20: reading by label with the label's values.  In a READ, after the range
\* queries completed and process_data_queries returned without error, the
\* buffer the caller gave for a label with label ranges holds the label
\* values of the index range resolved for that label.
C20_LabelValuesOfRangeLabel ==
  (/\ last_aggregate_call.op = "process_data_queries"
   /\ last_aggregate_call.ok
   /\ array_query_type = "READ")
  => \A l \in DimensionLabels :
       (/\ has_label_ranges(l)
        /\ status_range_query(l) = "COMPLETED"
        /\ label_data_buffers[l].set)
       => label_data_buffers[l].holds = << range_queries_[l].index_range >>

\* A construction of the aggregate whose only possible failure is the check
\* of label ranges together with a label buffer: a READ, the stored schemas
\* agree, and every dimension with label ranges has one range of an ordered
\* label.
PlainReadConstruction ==
  /\ last_aggregate_call.op = "DimensionLabelQueries"
  /\ last_aggregate_call.arguments.query_type = "READ"
  /\ last_aggregate_call.arguments.mismatch = "none"
  /\ \A d \in Dimensions :
       LET dim == last_aggregate_call.arguments.subarray[d]
       IN dim.label # "none" =>
            (label_order(dim.label) # "UNORDERED_LABELS" /\ dim.num_label_ranges = 1)

\* C21: add_range_queries rejects label ranges on a dimension together with a
\* label buffer for the same label only when the parent array is sparse; for
\* a dense parent array the construction succeeds and registers the range
\* query.
C21_RejectsOnlySparse ==
  PlainReadConstruction
  => \A d \in Dimensions :
       LET args == last_aggregate_call.arguments
           l == args.subarray[d].label
       IN (l # "none" /\ l \in args.label_buffers)
          => /\ args.dense => (last_aggregate_call.ok /\ has_label_ranges(l))
             /\ (last_aggregate_call.error = "label_data_not_implemented")
                  => ~args.dense

\* C22: query-type dispatch.  A construction for DELETE, UPDATE or
\* MODIFY_EXCLUSIVE succeeds, building no query, exactly when the subarray has
\* no label ranges and the caller gave no label buffer.
C22_QueryTypeDispatch ==
  (/\ last_aggregate_call.op = "DimensionLabelQueries"
   /\ last_aggregate_call.arguments.query_type \in
        {"DELETE", "UPDATE", "MODIFY_EXCLUSIVE"})
  => LET args == last_aggregate_call.arguments
     IN /\ last_aggregate_call.ok <=>
             (/\ \A d \in Dimensions : args.subarray[d].label = "none"
              /\ args.label_buffers = {})
        /\ owned_range_queries = {}
        /\ owned_data_queries = {}

C25_CascadeToEveryQuery ==
  last_aggregate_call.op \in {"cancel", "finalize"}
  => last_aggregate_call.processed = owned_range_queries \cup owned_data_queries

\* C26: schema validation at open.  When the stored schema of the labels
\* disagrees with the label reference in one of the five checks, a
\* construction that opens a label fails and no range query or data query is
\* registered; the schema error is raised only on a disagreement.
C26_SchemaValidation ==
  last_aggregate_call.op = "DimensionLabelQueries"
  => /\ last_aggregate_call.arguments.mismatch \in SchemaChecks
          => (owned_range_queries = {} /\ owned_data_queries = {})
     /\ last_aggregate_call.error = "schema_mismatch"
          => (/\ last_aggregate_call.arguments.mismatch \in SchemaChecks
              /\ ~last_aggregate_call.ok
              /\ aggregate_state = "failed")

\* A construction stopped by a label whose stored label domain differs.
C26_Witness ==
  /\ last_aggregate_call.op = "DimensionLabelQueries"
  /\ last_aggregate_call.error = "schema_mismatch"
  /\ last_aggregate_call.arguments.mismatch = "label_domain"
  /\ last_aggregate_call.arguments.label_buffers # {}
  /\ aggregate_state = "failed"

\* C28: on the WRITE path an ordered label needs no index buffer.  A
\* construction for WRITE in which only ordered labels are involved does not
\* raise the missing-index-buffer error.
C28_OrderedWriteWithoutIndexBuffer ==
  (/\ last_aggregate_call.op = "DimensionLabelQueries"
   /\ last_aggregate_call.arguments.query_type = "WRITE"
   /\ \A l \in last_aggregate_call.arguments.label_buffers :
        label_order(l) # "UNORDERED_LABELS"
   /\ \A d \in Dimensions :
        label_order(last_aggregate_call.arguments.subarray[d].label)
          # "UNORDERED_LABELS")
  => last_aggregate_call.error # "missing_index_buffer"

\* C23: cancel marks the range query failed.  A cancel() of a range query
\* whose status is neither COMPLETED nor FAILED leaves status() at FAILED.
C23_CancelMarksFailed ==
  [][ (/\ rq_state = "constructed"
       /\ rq_state' = "constructed"
       /\ lower_bound_query_' # lower_bound_query_
       /\ status_ \notin {"COMPLETED", "FAILED"})
      => status_' = "FAILED" ]_vars

\* C27: a range query accepts exactly one label range.  A construction with
\* no label range or with more than one raises an error and yields no query
\* object; with one range, the input label range is that range.
C27_ExactlyOneLabelRange ==
  [][ (rq_state = "none" /\ (rq_error' \/ rq_state' = "constructed"))
      => /\ Len(rq_label_ranges') # 1
              => (rq_state' = "none" /\ rq_error')
         /\ rq_state' = "constructed"
              => (/\ Len(rq_label_ranges') = 1
                  /\ ~rq_error'
                  /\ input_label_range_' = rq_label_ranges'[1]) ]_vars

\* A construction with two label ranges of an ordered label was refused.
C27_Witness ==
  /\ rq_state = "none"
  /\ rq_error
  /\ order_ = "INCREASING_LABELS"
  /\ Len(rq_label_ranges) = 2

\* Exactly one of three comparison results holds.
ExactlyOne(results) ==
  \/ (results.less_than /\ ~results.equal /\ ~results.greater_than)
  \/ (~results.less_than /\ results.equal /\ ~results.greater_than)
  \/ (~results.less_than /\ ~results.equal /\ results.greater_than)

Representable(v, type) == 0 <= v /\ v < TypeModulus(type)

C31_WriteDataQueriesOwnBothChildren ==
  (/\ last_aggregate_call.op = "DimensionLabelQueries"
   /\ last_aggregate_call.arguments.query_type = "WRITE")
  => /\ last_aggregate_call.error # "null_query"
     /\ \A l \in owned_data_queries :
          /\ data_queries_[l].opened_as = "WRITE"
          /\ data_queries_[l].indexed_array_query
          /\ data_queries_[l].labelled_array_query

\* C35: no intermediate index range is exposed.  get_index_range returns Ok
\* only when the range query exists with status COMPLETED, both probes have
\* results and the correction was applied where the computed label range
\* reaches beyond the input label range; while the range query is submitted
\* and not finalized, get_index_range returns an error.
C35_NoIntermediateIndexRange ==
  [][ /\ (olq_call'.op = "get_index_range" /\ olq_call'.ok)
           => /\ olq_range_query'.exists
              /\ olq_range_query'.status = "COMPLETED"
              /\ olq_range_query'.label_range_mismatch
                   => olq_range_query'.corrections >= 1
      /\ (olq_range_query'.status = "COMPLETED"
            /\ olq_range_query.status # "COMPLETED")
           => /\ olq_range_query.submitted
              /\ olq_range_query.lower_bound_query_.has_results
              /\ olq_range_query.upper_bound_query_.has_results
              /\ olq_range_query.label_range_mismatch
                   => olq_range_query'.corrections
                        = olq_range_query.corrections + 1
      /\ (olq_call'.op = "get_index_range" /\ olq_finalizes' = 0)
           => ~olq_call'.ok ]_vars

\* get_index_range returned the corrected index range of a completed range
\* query.
C35_Witness ==
  /\ olq_call.op = "get_index_range"
  /\ olq_call.ok
  /\ olq_range_query.label_range_mismatch
  /\ olq_range_query.corrections = 1
  /\ olq_call.range = olq_range_query.computed_index_range_

\* C37: the correction is applied at most once.  A finalize() that follows a
\* finalize() which completed the range query (as resolve_labels() runs it)
\* leaves the computed index range as it was.
C37_CorrectionAppliedOnce ==
  [][ (/\ olq_call.op = "finalize"
       /\ olq_call.ok
       /\ olq_call'.op = "finalize"
       /\ olq_finalizes' = olq_finalizes + 1)
      => olq_range_query'.computed_index_range_
           = olq_range_query.computed_index_range_ ]_vars

\* C38: RangeQuery::submit cancels a probe only on failure.  A failed
\* lower-bound submit cancels the upper-bound probe and returns the error; a
\* failed upper-bound submit cancels the lower-bound probe and returns the
\* error; when both submits succeed no probe is cancelled and Ok is
\* returned.
C38_CancelOnlyOnFailure ==
  olq_call.op = "submit"
  => /\ ~olq_call.lower_ok
          => (/\ ~olq_call.ok
              /\ olq_range_query.upper_bound_query_.status = "FAILED")
     /\ (olq_call.lower_ok /\ ~olq_call.upper_ok)
          => (/\ ~olq_call.ok
              /\ olq_range_query.lower_bound_query_.status = "FAILED")
     /\ (olq_call.lower_ok /\ olq_call.upper_ok)
          => (/\ olq_call.ok
              /\ olq_range_query.lower_bound_query_.status # "FAILED"
              /\ olq_range_query.upper_bound_query_.status # "FAILED")

C32_CorrectionNeverWraps ==
  (rq_state = "submitted" /\ status_ = "COMPLETED")
  => /\ computed_index_range_[2] <= index_domain[2] + 1
     /\ computed_index_range_[2] + 1 >= index_domain[1]

\* C33: the status of a range query follows UNINITIALIZED -> INPROGRESS ->
\* {COMPLETED, FAILED}: COMPLETED and FAILED are entered from INPROGRESS
\* only (FAILED also by cancel), and a status COMPLETED or FAILED never
\* changes.
C33_StatusStateMachine ==
  [][ /\ (status_' \in {"COMPLETED", "FAILED"} /\ status_' # status_)
           => \/ status_ = "INPROGRESS"
              \/ (/\ status_' = "FAILED"
                  /\ rq_state' = rq_state
                  /\ lower_bound_query_' = QueryCancel(lower_bound_query_))
      /\ status_ \in {"COMPLETED", "FAILED"} => status_' = status_ ]_vars

\* C34: a runtime failure of a probe is reflected in the status.  After a
\* submit() in which the processing of a probe returned an error, the other
\* probe is cancelled, the error is raised and status() is FAILED.
C34_ProbeFailureSetsFailed ==
  [][ (rq_state = "constructed" /\ rq_state' = "submitted" /\ rq_error')
      => status_' = "FAILED" ]_vars

\* C39: each buffer of a probe has its own size cell: the index buffer of
\* the lower-bound probe is bound with lower_bound_index_buffer_size_, its
\* label buffer with lower_bound_label_buffer_size_, and likewise for the
\* upper-bound probe, so each index buffer is offered with the byte size of
\* the index type.
C39_OwnSizeCells ==
  rq_state = "constructed"
  => /\ LowerLabelSizeCell = "lower_bound_label_buffer_size_"
     /\ LowerIndexSizeCell = "lower_bound_index_buffer_size_"
     /\ UpperLabelSizeCell = "upper_bound_label_buffer_size_"
     /\ UpperIndexSizeCell = "upper_bound_index_buffer_size_"
     /\ buffer_sizes[LowerIndexSizeCell] = datatype_size(index_type)
     /\ buffer_sizes[UpperIndexSizeCell] = datatype_size(index_type)
====
